---------------------------- MODULE Spec2Model ----------------------------
(***************************************************************************)
(* Render cache (LRUCache), render engine (BunAngularEngine.render), batch *)
(* prerender orchestrator (prerenderRoutes) and static file handler        *)
(* (BunStaticFileHandler) of ngx-bun.                                      *)
(*                                                                         *)
(* Four specifications share this module:                                  *)
(*   Spec           direct calls on one LRUCache                           *)
(*   SpecEngine     concurrent render calls on one engine with its cache   *)
(*   SpecPrerender  one prerenderRoutes call                               *)
(*   SpecStatic     lookup and serve calls on one BunStaticFileHandler     *)
(***************************************************************************)
EXTENDS Integers, Sequences, FiniteSets, TLC

(***************************************************************************)
(* Bounds of the model.                                                    *)
(***************************************************************************)
MaxCap == 2
\* largest capacity an LRUCache is constructed with

MaxOps == 5
\* number of calls made on the cache in one behaviour of Spec

Keys == {"k1", "k2", "k3"}

Values == {"v1", "v2"}

Undefined == "undefined"

VARIABLES
    cache,      \* LRUCache.cache: the Map, as the sequence of its entries in insertion order
    maxSize,    \* LRUCache.maxSize
    tick,       \* history: number of calls made so far
    touched,    \* history: key -> tick of its latest set or successful get (0: never)
    lastOp,     \* history: the latest call, its argument and what it returned
    live        \* history: key -> the value of its latest set, Undefined when it was never
                \* set or was evicted, deleted or cleared since

cacheVars == <<cache, maxSize, tick, touched, lastOp, live>>

VARIABLES
    cacheOn,           \* BunAngularEngine.cache is not null (enableCache !== false)
    cacheTtl,          \* BunAngularEngine.cacheTtl
    indexHtmlContent,  \* BunAngularEngine.indexHtmlContent is loaded (TRUE) or null (FALSE)
    now,               \* Date.now()
    calls,             \* the render calls that await renderApplication
    started,           \* number of render calls made so far
    returned,          \* the render call that returned last: its result, and what its lookup saw
    inFlightAtClear    \* history: the calls that awaited renderApplication when clearCache
                       \* last returned

engineVars ==
    <<cacheOn, cacheTtl, indexHtmlContent, now, calls, started, returned, inFlightAtClear>>

VARIABLES
    routes,                 \* options.routes
    engineGiven,            \* options.engine or options.engineOptions is given
    concurrency,            \* options.concurrency
    shouldGenerateSitemap,  \* options.generateSitemap
    ppc,                    \* where prerenderRoutes stands
    expandedRoutes,         \* expandedRoutes
    chunks,                 \* chunks, as places in expandedRoutes
    wave,                   \* the number of chunks the for loop has taken
    result,                 \* result: total, success, failed, routes
    completed,              \* completed
    task,                   \* where each task's async function stands
    rejectedBy,             \* the task whose rejection settled the Promise.all awaited (0: none)
    outcome,                \* what the caller of prerenderRoutes has got: nothing yet, the
                            \* result, or an error (of a task, or of a step of the call)
    progress,               \* the calls of onProgress, in order
    fate,                   \* history: how each task ended
    stopped,                \* history: the tasks for which onError returned false
    files,                  \* the output files: path -> the task whose html it holds (0: no file)
    sitemap                 \* sitemap.xml: whether it was written, and the <loc> entries it lists

prerenderVars ==
    <<routes, engineGiven, concurrency, shouldGenerateSitemap, ppc, expandedRoutes, chunks,
      wave, result, completed, task, rejectedBy, outcome, progress, fate, stopped, files,
      sitemap>>

VARIABLES
    compression,   \* BunStaticFileHandler.compression
    exclude,       \* BunStaticFileHandler.exclude: no pattern ("none") or the pattern /a/ ("a")
    disk,          \* the files and directories on disk, with their stats
    requested,     \* the urlPath that lookup and serve are called with
    staticOut      \* the latest call of lookup or serve: its arguments and what it returned

staticVars == <<compression, exclude, disk, requested, staticOut>>

vars == <<cacheVars, engineVars, prerenderVars, staticVars>>

(***************************************************************************)
(* JavaScript's Map, which iterates in insertion order.                    *)
(***************************************************************************)
MapKeys(m) == {m[i].key : i \in DOMAIN m}

MapHas(m, k) == k \in MapKeys(m)

MapIndex(m, k) == CHOOSE i \in DOMAIN m : m[i].key = k

MapGet(m, k) == IF MapHas(m, k) THEN m[MapIndex(m, k)].value ELSE Undefined

MapDelete(m, k) == SelectSeq(m, LAMBDA e : e.key # k)

\* Map.prototype.set: a present key keeps its place, a new key goes last
MapSet(m, k, v) ==
    IF MapHas(m, k)
    THEN [m EXCEPT ![MapIndex(m, k)] = [key |-> k, value |-> v]]
    ELSE Append(m, [key |-> k, value |-> v])

\* this.cache.keys().next().value
MapFirstKey(m) == IF Len(m) = 0 THEN Undefined ELSE m[1].key

(***************************************************************************)
(* LRUCache: each operator gives the Map after the call.                   *)
(***************************************************************************)
LRUGetNoTouch(m, k) == m

\* a get that removes the entry it finds
LRUGetRemoves(m, k) == MapDelete(m, k)

LRUGetMap(m, k) ==
    IF ~MapHas(m, k)
    THEN m
    ELSE MapSet(MapDelete(m, k), k, MapGet(m, k))

LRUGetValue(m, k) == IF ~MapHas(m, k) THEN Undefined ELSE MapGet(m, k)

\* the value get returns is not undefined
LRUGetFound(m, k) == MapHas(m, k)

LRUSetOffByOne(m, cap, k, v) ==
    IF MapHas(m, k)
    THEN MapSet(MapDelete(m, k), k, v)
    ELSE IF Len(m) > cap
         THEN MapSet(IF MapFirstKey(m) # Undefined
                     THEN MapDelete(m, MapFirstKey(m)) ELSE m, k, v)
         ELSE MapSet(m, k, v)

LRUSetKeepsOld(m, cap, k, v) ==
    IF MapHas(m, k)
    THEN m
    ELSE IF Len(m) >= cap
         THEN MapSet(IF MapFirstKey(m) # Undefined
                     THEN MapDelete(m, MapFirstKey(m)) ELSE m, k, v)
         ELSE MapSet(m, k, v)

LRUSetEvictsWhenFull(m, cap, k, v) ==
    IF Len(m) >= cap
    THEN MapSet(MapDelete(MapDelete(m, MapFirstKey(m)), k), k, v)
    ELSE MapSet(MapDelete(m, k), k, v)

LRUSet(m, cap, k, v) ==
    IF MapHas(m, k)
    THEN MapSet(MapDelete(m, k), k, v)
    ELSE IF Len(m) >= cap
         THEN MapSet(IF MapFirstKey(m) # Undefined
                     THEN MapDelete(m, MapFirstKey(m)) ELSE m, k, v)
         ELSE MapSet(m, k, v)

LRUHas(m, k) == MapHas(m, k)

LRUDeleteMap(m, k) == MapDelete(m, k)

LRUDeleteValueAlways(m, k) == TRUE

LRUDeleteValue(m, k) == MapHas(m, k)

LRUClear(m) == << >>

LRUSize(m) == Len(m)

(***************************************************************************)
(* Spec: calls on one LRUCache<string>.                                    *)
(***************************************************************************)
CacheInit ==
    /\ maxSize \in 1..MaxCap
    /\ cache = << >>
    /\ tick = 0
    /\ touched = [k \in Keys |-> 0]
    /\ lastOp = [op |-> "new", key |-> Undefined, ret |-> Undefined, atCap |-> FALSE,
                had |-> FALSE]
    /\ live = [k \in Keys |-> Undefined]

Set(k, v) ==
    /\ tick < MaxOps
    /\ cache' = LRUSet(cache, maxSize, k, v)
    /\ tick' = tick + 1
    /\ touched' = [touched EXCEPT ![k] = tick + 1]
    /\ lastOp' = [op |-> "set", key |-> k, ret |-> Undefined,
                  atCap |-> (~MapHas(cache, k) /\ LRUSize(cache) >= maxSize),
                  had |-> MapHas(cache, k)]
    /\ live' = [j \in Keys |-> IF j = k THEN v
                               ELSE IF MapHas(cache', j) THEN live[j] ELSE Undefined]
    /\ UNCHANGED <<maxSize, engineVars, prerenderVars, staticVars>>

Get(k) ==
    /\ tick < MaxOps
    /\ cache' = LRUGetMap(cache, k)
    /\ tick' = tick + 1
    /\ touched' = IF MapHas(cache, k) THEN [touched EXCEPT ![k] = tick + 1] ELSE touched
    /\ lastOp' = [op |-> "get", key |-> k, ret |-> LRUGetValue(cache, k), atCap |-> FALSE,
                  had |-> MapHas(cache, k)]
    /\ UNCHANGED <<maxSize, live, engineVars, prerenderVars, staticVars>>

Has(k) ==
    /\ tick < MaxOps
    /\ tick' = tick + 1
    /\ lastOp' = [op |-> "has", key |-> k, ret |-> LRUHas(cache, k), atCap |-> FALSE,
                  had |-> MapHas(cache, k)]
    /\ UNCHANGED <<cache, maxSize, touched, live, engineVars, prerenderVars, staticVars>>

Delete(k) ==
    /\ tick < MaxOps
    /\ cache' = LRUDeleteMap(cache, k)
    /\ tick' = tick + 1
    /\ lastOp' = [op |-> "delete", key |-> k, ret |-> LRUDeleteValue(cache, k),
                  atCap |-> FALSE, had |-> MapHas(cache, k)]
    /\ live' = [live EXCEPT ![k] = Undefined]
    /\ UNCHANGED <<maxSize, touched, engineVars, prerenderVars, staticVars>>

Clear ==
    /\ tick < MaxOps
    /\ cache' = LRUClear(cache)
    /\ tick' = tick + 1
    /\ lastOp' = [op |-> "clear", key |-> Undefined, ret |-> Undefined, atCap |-> FALSE,
                  had |-> FALSE]
    /\ live' = [k \in Keys |-> Undefined]
    /\ UNCHANGED <<maxSize, touched, engineVars, prerenderVars, staticVars>>

CacheNext ==
    \/ \E k \in Keys, v \in Values : Set(k, v)
    \/ \E k \in Keys : Get(k)
    \/ \E k \in Keys : Has(k)
    \/ \E k \in Keys : Delete(k)
    \/ Clear

(***************************************************************************)
(* BunAngularEngine.                                                       *)
(***************************************************************************)
MaxCalls == 2
\* number of render calls made on the engine in one behaviour of SpecEngine

MaxTime == 2
\* Date.now() runs from 0 to MaxTime

\* the default of cacheTtl (300_000 ms, scaled)
DefaultCacheTtl == 2

\* options.cacheTtl: not given, or a number of ms
CacheTtlOptions ==
    {[given |-> FALSE, value |-> 0], [given |-> TRUE, value |-> 0], [given |-> TRUE, value |-> 2]}

\* this.cacheTtl = options.cacheTtl ?? 300_000
constructorCacheTtl(opt) == IF opt.given THEN opt.value ELSE DefaultCacheTtl

\* the values of this.cacheTtl the engine is constructed with
TtlChoices == {constructorCacheTtl(opt) : opt \in CacheTtlOptions}

\* a url is the host it names ("" for none) and its path with query; Malformed
\* is a string that new URL(url, 'http://localhost') rejects
Malformed == [host |-> "", path |-> "malformed"]

Urls == {[host |-> "", path |-> "/a"], [host |-> "h", path |-> "/a"],
         [host |-> "", path |-> "/b"], Malformed}

\* html of the error page
ErrorPage == -1

UrlParses(url) == url # Malformed

\* `${parsedUrl.pathname}${parsedUrl.search}`
getCacheKey(url) == url.path

isCacheValidInclusive(entry, t) == t <= entry.expiresAt

isCacheValidStrictlyEarlier(entry, t) == t + 1 < entry.expiresAt

isCacheValid(entry, t) == t < entry.expiresAt

\* loadIndexHtml: existsSync decides whether the content is read
loadIndexHtml(content, onDisk) == IF onDisk THEN TRUE ELSE content

\* getDocument: the content after the call; it throws when there is still none
getDocument(content, onDisk) == IF ~content THEN loadIndexHtml(content, onDisk) ELSE content

\* the headers of a rendered page (Content-Type and X-Rendered-By) and of the
\* error page (Content-Type only)
RenderedHeaders == "rendered"

ErrorHeaders == "error"

\* a render call: what it was called with, where it stands, the result it
\* returned, and as history what its lookup saw (lookupAt, servedExpiresAt,
\* foundStale) and what failed in it (failure)
NoCall ==
    [id |-> 0, pc |-> "none", key |-> Undefined, skipCache |-> FALSE, status |-> 0,
     fromCache |-> FALSE, html |-> 0, headers |-> "none", lookupAt |-> -1,
     servedExpiresAt |-> -1, foundStale |-> FALSE, failure |-> "none"]

\* the entry stored by a successful render
NewCacheEntry(html, t, ttl) ==
    [html |-> html, status |-> 200, headers |-> RenderedHeaders, timestamp |-> t,
     expiresAt |-> t + ttl]

\* the Map after the catch branch of render: it is not written
CacheAfterFailureStoresError(m, cap, on, skip, key, t, ttl) ==
    IF ~skip /\ on
    THEN LRUSet(m, cap, key, [html |-> ErrorPage, status |-> 500, headers |-> ErrorHeaders,
                              timestamp |-> t, expiresAt |-> t + ttl])
    ELSE m

CacheAfterFailure(m, cap, on, skip, key, t, ttl) == m

CacheAfterSuccessIgnoringSkip(m, cap, on, skip, key, html, t, ttl) ==
    IF on
    THEN LRUSet(m, cap, key, NewCacheEntry(html, t, ttl))
    ELSE m

\* an insert that takes the key to be as absent as the lookup of the call found it
CacheAfterSuccessAppends(m, cap, on, skip, key, html, t, ttl) ==
    IF ~skip /\ on
    THEN Append(m, [key |-> key, value |-> NewCacheEntry(html, t, ttl)])
    ELSE m

\* the Map after a successful render
CacheAfterSuccess(m, cap, on, skip, key, html, t, ttl) ==
    IF ~skip /\ on
    THEN LRUSet(m, cap, key, NewCacheEntry(html, t, ttl))
    ELSE m

\* the Map of an engine when the calls followed here begin: empty, or holding
\* the unexpired page (html 0) that a render of "/a" stored at time 0, or
\* holding the page of "/a" stored a whole ttl ago, which expires at time 0,
\* and after it the page that a render of "/c" stored at time 0
InitialCaches(on, ttl, cap) ==
    IF on /\ ttl > 0
    THEN {<< >>, <<[key |-> "/a", value |-> NewCacheEntry(0, 0, ttl)]>>}
         \cup (IF cap >= 2
               THEN {<<[key |-> "/a", value |-> NewCacheEntry(0, 0 - ttl, ttl)],
                       [key |-> "/c", value |-> NewCacheEntry(0, 0, ttl)]>>}
               ELSE {})
    ELSE {<< >>}

EngineInit ==
    /\ cacheOn \in BOOLEAN
    /\ maxSize \in 1..MaxCap
    /\ cacheTtl \in TtlChoices
    /\ indexHtmlContent \in BOOLEAN
    /\ cache \in InitialCaches(cacheOn, cacheTtl, maxSize)
    /\ now = 0
    /\ calls = {}
    /\ started = 0
    /\ returned = NoCall
    /\ inFlightAtClear = {}
    /\ tick = 0
    /\ touched = [k \in Keys |-> 0]
    /\ lastOp = [op |-> "new", key |-> Undefined, ret |-> Undefined, atCap |-> FALSE,
                had |-> FALSE]
    /\ live = [k \in Keys |-> Undefined]

\* render, to its first await or to its return when there is none: the cache
\* key, the cache lookup, getDocument and the call of renderApplication
RenderStart(url, skip, onDisk) ==
    /\ started < MaxCalls
    /\ started' = started + 1
    /\ LET key == getCacheKey(url)
           lookup == ~skip /\ cacheOn
           found == lookup /\ LRUGetFound(cache, key)
           entry == LRUGetValue(cache, key)
           hit == found /\ isCacheValid(entry, now)
           base == [NoCall EXCEPT !.id = started + 1, !.key = key, !.skipCache = skip,
                                  !.foundStale = found /\ ~hit]
           doc == getDocument(indexHtmlContent, onDisk)
       IN  IF ~UrlParses(url)
           THEN \* new URL throws before the try block: the call rejects
                /\ returned' = [NoCall EXCEPT !.id = started + 1, !.pc = "rejected",
                                              !.skipCache = skip]
                /\ UNCHANGED <<cache, indexHtmlContent, calls>>
           ELSE /\ cache' = IF lookup THEN LRUGetMap(cache, key) ELSE cache
                /\ IF hit
                   THEN /\ returned' = [base EXCEPT !.pc = "done", !.status = entry.status,
                                                    !.fromCache = TRUE, !.html = entry.html,
                                                    !.headers = entry.headers,
                                                    !.lookupAt = now,
                                                    !.servedExpiresAt = entry.expiresAt]
                        /\ UNCHANGED <<indexHtmlContent, calls>>
                   ELSE /\ indexHtmlContent' = doc
                        /\ IF doc
                           THEN /\ calls' = calls \cup {[base EXCEPT !.pc = "rendering"]}
                                /\ UNCHANGED returned
                           ELSE /\ returned' = [base EXCEPT !.pc = "done", !.status = 500,
                                                            !.html = ErrorPage,
                                                            !.headers = ErrorHeaders,
                                                            !.failure = "template"]
                                /\ UNCHANGED calls
    /\ UNCHANGED <<cacheOn, cacheTtl, maxSize, now, inFlightAtClear, tick, touched, lastOp, live,
                   prerenderVars, staticVars>>

\* renderApplication resolves: the result is built and stored in the cache
RenderOk(c) ==
    /\ c \in calls
    /\ cache' = CacheAfterSuccess(cache, maxSize, cacheOn, c.skipCache, c.key, c.id,
                                  now, cacheTtl)
    /\ calls' = calls \ {c}
    /\ returned' = [c EXCEPT !.pc = "done", !.status = 200, !.html = c.id,
                              !.headers = RenderedHeaders]
    /\ UNCHANGED <<cacheOn, cacheTtl, maxSize, indexHtmlContent, now, started, inFlightAtClear,
                   tick, touched, lastOp, live, prerenderVars, staticVars>>

\* renderApplication rejects: the catch branch builds the error page
RenderFail(c) ==
    /\ c \in calls
    /\ cache' = CacheAfterFailure(cache, maxSize, cacheOn, c.skipCache, c.key,
                                  now, cacheTtl)
    /\ calls' = calls \ {c}
    /\ returned' = [c EXCEPT !.pc = "done", !.status = 500, !.html = ErrorPage,
                              !.headers = ErrorHeaders, !.failure = "render"]
    /\ UNCHANGED <<cacheOn, cacheTtl, maxSize, indexHtmlContent, now, started, inFlightAtClear,
                   tick, touched, lastOp, live, prerenderVars, staticVars>>

ClearCache ==
    /\ cacheOn
    /\ cache # << >>
    /\ cache' = LRUClear(cache)
    /\ inFlightAtClear' = {c.id : c \in calls}
    /\ UNCHANGED <<cacheOn, cacheTtl, maxSize, indexHtmlContent, now, calls, started,
                   returned, tick, touched, lastOp, live, prerenderVars, staticVars>>

ReloadTemplate(onDisk) ==
    /\ indexHtmlContent' = loadIndexHtml(FALSE, onDisk)
    /\ indexHtmlContent' # indexHtmlContent
    /\ UNCHANGED <<cache, cacheOn, cacheTtl, maxSize, now, calls, started, returned,
                   inFlightAtClear, tick, touched, lastOp, live, prerenderVars, staticVars>>

Tick ==
    /\ now < MaxTime
    /\ now' = now + 1
    /\ UNCHANGED <<cache, cacheOn, cacheTtl, maxSize, indexHtmlContent, calls, started,
                   returned, inFlightAtClear, tick, touched, lastOp, live, prerenderVars,
                   staticVars>>

EngineNext ==
    \/ \E url \in Urls, skip \in BOOLEAN, onDisk \in BOOLEAN : RenderStart(url, skip, onDisk)
    \/ \E c \in calls : RenderOk(c)
    \/ \E c \in calls : RenderFail(c)
    \/ ClearCache
    \/ \E onDisk \in BOOLEAN : ReloadTemplate(onDisk)
    \/ Tick

(***************************************************************************)
(* prerenderRoutes.                                                        *)
(***************************************************************************)
MaxRoutes == 3
\* largest number of routes given to prerenderRoutes

MaxConcurrency == 2
\* largest options.concurrency

\* a path is the sequence of its characters
RouteChoices == {<<"/", "a">>, <<"b", "/">>}

RECURSIVE CollapseSlashes(_)
\* path.replace(/\/+/g, '/')
CollapseSlashes(p) ==
    IF Len(p) < 2 THEN p
    ELSE IF p[1] = "/" /\ p[2] = "/"
         THEN CollapseSlashes(Tail(p))
         ELSE <<p[1]>> \o CollapseSlashes(Tail(p))

normalizePath(p) ==
    CollapseSlashes(IF Len(p) = 0 \/ p[1] # "/" THEN <<"/">> \o p ELSE p)

\* normalized.replace(/\/$/, '')
StripTrailingSlash(p) ==
    IF Len(p) > 0 /\ p[Len(p)] = "/" THEN SubSeq(p, 1, Len(p) - 1) ELSE p

pathToOutputFile(p) ==
    IF normalizePath(p) = <<"/">>
    THEN <<"/", "index.html">>
    ELSE StripTrailingSlash(normalizePath(p)) \o <<"/", "index.html">>

RECURSIVE ChunkFrom(_, _, _)
\* the loop of chunk: array.slice(i, i + size) for i = 0, size, 2 size, ... < array.length
\* (i counts from 1 here)
ChunkFrom(array, size, i) ==
    IF i > Len(array) THEN << >>
    ELSE <<SubSeq(array, i, IF i + size - 1 < Len(array) THEN i + size - 1 ELSE Len(array))>>
         \o ChunkFrom(array, size, i + size)

chunkOneMore(array, size) == ChunkFrom(array, size + 1, 1)

chunk(array, size) == ChunkFrom(array, size, 1)

\* the options a task calls engine.render with
PrerenderRenderOptions(path) == [url |-> path, skipCache |-> TRUE]

\* the tasks are told apart by their place in expandedRoutes
TaskIds(expanded) == [i \in 1..Len(expanded) |-> i]

SeqToSet(s) == {s[i] : i \in DOMAIN s}

\* sitemap.xml while it has not been written
Absent == [written |-> FALSE, content |-> << >>]

OutputPaths == {pathToOutputFile(r) : r \in RouteChoices}

RECURSIVE SeqsUpTo(_, _)
\* the sequences over S of length at most n
SeqsUpTo(S, n) ==
    IF n = 0 THEN {<< >>}
    ELSE SeqsUpTo(S, n - 1) \cup
         {Append(s, x) : s \in {t \in SeqsUpTo(S, n - 1) : Len(t) = n - 1}, x \in S}

PrerenderInit ==
    /\ routes \in SeqsUpTo(RouteChoices, MaxRoutes)
    /\ engineGiven \in BOOLEAN
    /\ concurrency \in 1..MaxConcurrency
    /\ shouldGenerateSitemap \in BOOLEAN
    /\ ppc = "start"
    /\ expandedRoutes = << >>
    /\ chunks = << >>
    /\ wave = 0
    /\ result = [total |-> 0, success |-> 0, failed |-> 0, routes |-> << >>]
    /\ completed = 0
    /\ task = << >>
    /\ rejectedBy = 0
    /\ outcome = [kind |-> "pending", reason |-> "none", task |-> 0]
    /\ progress = << >>
    /\ fate = << >>
    /\ stopped = {}
    /\ files = [f \in OutputPaths |-> 0]
    /\ sitemap = Absent

EngineThrowsNever(given) == FALSE

\* the else branch of "Create or use engine": neither options.engine nor
\* options.engineOptions is there
EngineThrows(given) == ~given

\* "Create or use engine": without an engine the call throws
Configure ==
    /\ ppc = "start"
    /\ IF ~EngineThrows(engineGiven)
       THEN ppc' = "expand" /\ UNCHANGED outcome
       ELSE ppc' = "rejected" /\ outcome' = [kind |-> "rejected", reason |-> "config", task |-> 0]
    /\ UNCHANGED <<cacheVars, engineVars, staticVars, routes, engineGiven, concurrency, shouldGenerateSitemap, expandedRoutes,
                   chunks, wave, result, completed, task, rejectedBy, progress, fate,
                   stopped, files, sitemap>>

\* "Expand all routes" (literal routes) and the initial result
Expand ==
    /\ ppc = "expand"
    /\ expandedRoutes' = [i \in DOMAIN routes |->
                             [path |-> routes[i], outputPath |-> pathToOutputFile(routes[i])]]
    /\ result' = [total |-> Len(routes), success |-> 0, failed |-> 0, routes |-> << >>]
    /\ task' = [i \in DOMAIN routes |-> "pending"]
    /\ fate' = [i \in DOMAIN routes |-> "none"]
    /\ ppc' = "mkdir"
    /\ UNCHANGED <<cacheVars, engineVars, staticVars, routes, engineGiven, concurrency, shouldGenerateSitemap, chunks, wave,
                   completed, rejectedBy, outcome, progress, stopped, files, sitemap>>

\* "Create output directory", then chunk(expandedRoutes, concurrency); a failing
\* mkdir rejects the call
MkOutputDir(exists, ok) ==
    /\ ppc = "mkdir"
    /\ IF exists \/ ok
       THEN /\ chunks' = chunk(TaskIds(expandedRoutes), concurrency)
            /\ ppc' = "loop"
            /\ UNCHANGED outcome
       ELSE /\ ppc' = "rejected"
            /\ outcome' = [kind |-> "rejected", reason |-> "mkdir", task |-> 0]
            /\ UNCHANGED chunks
    /\ UNCHANGED <<cacheVars, engineVars, staticVars, routes, engineGiven, concurrency, shouldGenerateSitemap, expandedRoutes,
                   wave, result, completed, task, rejectedBy, progress, fate, stopped,
                   files, sitemap>>

\* the for loop takes the next chunk: routeChunk.map starts every task of it,
\* each running to its await of engine.render; after the last chunk, the sitemap
Dispatch ==
    /\ ppc = "loop"
    /\ IF wave < Len(chunks)
       THEN /\ wave' = wave + 1
            /\ task' = [i \in DOMAIN task |->
                           IF i \in SeqToSet(chunks[wave + 1]) THEN "rendering" ELSE task[i]]
            /\ ppc' = "join"
       ELSE /\ ppc' = "sitemap"
            /\ UNCHANGED <<wave, task>>
    /\ UNCHANGED <<cacheVars, engineVars, staticVars, routes, engineGiven, concurrency, shouldGenerateSitemap, expandedRoutes,
                   chunks, result, completed, rejectedBy, outcome, progress, fate, stopped,
                   files, sitemap>>

\* Promise.all(promises) is fulfilled once every promise is
AllFulfilledAny(states, ids) == \E i \in ids : states[i] = "fulfilled"

AllFulfilled(states, ids) == \A i \in ids : states[i] = "fulfilled"

\* await Promise.all(promises) returns, or throws what the first rejected task threw
Join ==
    /\ ppc = "join"
    /\ IF rejectedBy # 0
       THEN /\ ppc' = "rejected"
            /\ outcome' = [kind |-> "rejected", reason |-> "task", task |-> rejectedBy]
       ELSE /\ AllFulfilled(task, SeqToSet(chunks[wave]))
            /\ ppc' = "loop"
            /\ UNCHANGED outcome
    /\ UNCHANGED <<cacheVars, engineVars, staticVars, routes, engineGiven, concurrency, shouldGenerateSitemap, expandedRoutes,
                   chunks, wave, result, completed, task, rejectedBy, progress, fate,
                   stopped, files, sitemap>>

\* result.routes after the catch branch has run for a task
RoutesAfterFailureThrowFirst(rs, rec, shouldContinue) ==
    IF shouldContinue = "false" THEN rs ELSE Append(rs, rec)

RoutesAfterFailure(rs, rec, shouldContinue) == Append(rs, rec)

\* completed after the catch branch has run for a task
CompletedAfterFailureForgotten(n) == n

CompletedAfterFailureTwice(n) == n + 2

CompletedAfterFailure(n) == n + 1

\* if (shouldContinue === false) throw error
ShouldStopUnlessTrue(shouldContinue) == shouldContinue # "true"

ShouldStop(shouldContinue) == shouldContinue = "false"

\* Promise.all keeps the reason of the first promise that rejects
AllRejectedByLast(settledBy, i) == i

AllRejectedBy(settledBy, i) == IF settledBy = 0 THEN i ELSE settledBy

\* the catch branch for task i, which failed in step cause: onError answers
\* shouldContinue ("undefined" also when there is no onError)
Catch(i, cause, shouldContinue) ==
    /\ completed' = CompletedAfterFailure(completed)
    /\ progress' = Append(progress, [completed |-> completed', total |-> result.total,
                                     path |-> expandedRoutes[i].path])
    /\ result' = [result EXCEPT
                    !.failed = @ + 1,
                    !.routes = RoutesAfterFailure(@,
                                   [id |-> i, path |-> expandedRoutes[i].path,
                                    outputPath |-> expandedRoutes[i].outputPath,
                                    success |-> FALSE, error |-> cause],
                                   shouldContinue)]
    /\ fate' = [fate EXCEPT ![i] = cause]
    /\ stopped' = IF shouldContinue = "false" THEN stopped \cup {i} ELSE stopped
    /\ IF ShouldStop(shouldContinue)
       THEN /\ task' = [task EXCEPT ![i] = "rejected"]
            /\ rejectedBy' = AllRejectedBy(rejectedBy, i)
       ELSE /\ task' = [task EXCEPT ![i] = "fulfilled"]
            /\ UNCHANGED rejectedBy
    /\ UNCHANGED <<files>>

Decisions == {"true", "false", "undefined"}

\* the status of the result engine.render resolves to: 200, or the 500 of the
\* error page
RenderStatuses == {200, 500}

RenderThrowsNever(status) == FALSE

\* if (renderResult.status !== 200) throw new Error(...)
RenderThrows(status) == status # 200

\* engine.render has settled for task i: with status 200 the task goes on to
\* create the directory when it does not exist, or to write the file
RenderDone(i, status, dirExists, shouldContinue) ==
    /\ i \in DOMAIN task
    /\ task[i] = "rendering"
    /\ IF ~RenderThrows(status)
       THEN /\ task' = [task EXCEPT ![i] = IF dirExists THEN "writing" ELSE "mkdir"]
            /\ UNCHANGED <<result, completed, progress, fate, stopped, rejectedBy, files>>
       ELSE Catch(i, "render", shouldContinue)
    /\ UNCHANGED <<cacheVars, engineVars, staticVars, routes, engineGiven, concurrency, shouldGenerateSitemap, ppc,
                   expandedRoutes, chunks, wave, outcome, sitemap>>

\* mkdir(dir, {recursive: true}) has settled for task i
MkdirDone(i, ok, shouldContinue) ==
    /\ i \in DOMAIN task
    /\ task[i] = "mkdir"
    /\ IF ok
       THEN /\ task' = [task EXCEPT ![i] = "writing"]
            /\ UNCHANGED <<result, completed, progress, fate, stopped, rejectedBy, files>>
       ELSE Catch(i, "mkdir", shouldContinue)
    /\ UNCHANGED <<cacheVars, engineVars, staticVars, routes, engineGiven, concurrency, shouldGenerateSitemap, ppc,
                   expandedRoutes, chunks, wave, outcome, sitemap>>

\* writeFile(fullOutputPath, html) has settled for task i; a failed write is
\* taken to leave the file as it was
WriteDone(i, ok, shouldContinue) ==
    /\ i \in DOMAIN task
    /\ task[i] = "writing"
    /\ IF ok
       THEN /\ files' = [files EXCEPT ![expandedRoutes[i].outputPath] = i]
            /\ completed' = completed + 1
            /\ progress' = Append(progress, [completed |-> completed', total |-> result.total,
                                             path |-> expandedRoutes[i].path])
            /\ result' = [result EXCEPT
                            !.success = @ + 1,
                            !.routes = Append(@, [id |-> i, path |-> expandedRoutes[i].path,
                                                  outputPath |-> expandedRoutes[i].outputPath,
                                                  success |-> TRUE, error |-> "none"])]
            /\ fate' = [fate EXCEPT ![i] = "ok"]
            /\ task' = [task EXCEPT ![i] = "fulfilled"]
            /\ UNCHANGED <<stopped, rejectedBy>>
       ELSE Catch(i, "write", shouldContinue)
    /\ UNCHANGED <<cacheVars, engineVars, staticVars, routes, engineGiven, concurrency, shouldGenerateSitemap, ppc,
                   expandedRoutes, chunks, wave, outcome, sitemap>>

\* the paths of all records
SuccessfulRoutesAndFailed(rs) == [k \in DOMAIN rs |-> rs[k].path]

\* the paths of the successful records, in the order of result.routes
SuccessfulRoutes(rs) ==
    LET ok == SelectSeq(rs, LAMBDA r : r.success)
    IN  [k \in DOMAIN ok |-> ok[k].path]

\* options.baseUrl: not given, or a url, which is its origin and the directory
\* of its path
BaseUrlOptions ==
    {[given |-> FALSE, origin |-> "", dir |-> << >>],
     [given |-> TRUE, origin |-> "https://example.com", dir |-> <<"/">>],
     [given |-> TRUE, origin |-> "https://example.com", dir |-> <<"/", "d", "/">>]}

\* baseUrl = 'http://localhost' in the destructuring of the options
destructuredBaseUrl(opt) ==
    IF opt.given THEN [origin |-> opt.origin, dir |-> opt.dir]
    ELSE [origin |-> "http://localhost", dir |-> <<"/">>]

BaseUrls == {destructuredBaseUrl(opt) : opt \in BaseUrlOptions}

\* new URL(route, baseUrl).href for a route that is a path: one that starts
\* with "/" replaces the path of the base, any other is appended to the
\* directory of the base
URLHref(route, baseUrl) ==
    IF Len(route) > 0 /\ route[1] = "/"
    THEN [origin |-> baseUrl.origin, path |-> route]
    ELSE [origin |-> baseUrl.origin, path |-> baseUrl.dir \o route]

\* generateSitemap: the document is the sequence of its <loc> entries
generateSitemap(rs, baseUrl) == [k \in DOMAIN rs |-> URLHref(rs[k], baseUrl)]

ShouldWriteSitemapWhenEnabled(enabled, res) == enabled

\* if (shouldGenerateSitemap && result.success > 0)
ShouldWriteSitemap(enabled, res) == enabled /\ res.success > 0

\* "Generate sitemap" and return; a failing write of sitemap.xml rejects the call
Sitemap(ok, baseUrl) ==
    /\ ppc = "sitemap"
    /\ IF ShouldWriteSitemap(shouldGenerateSitemap, result)
       THEN IF ok
            THEN /\ sitemap' = [written |-> TRUE,
                                content |-> generateSitemap(SuccessfulRoutes(result.routes),
                                                            baseUrl)]
                 /\ ppc' = "resolved"
                 /\ outcome' = [kind |-> "resolved", reason |-> "none", task |-> 0]
            ELSE /\ ppc' = "rejected"
                 /\ outcome' = [kind |-> "rejected", reason |-> "sitemap", task |-> 0]
                 /\ UNCHANGED sitemap
       ELSE /\ ppc' = "resolved"
            /\ outcome' = [kind |-> "resolved", reason |-> "none", task |-> 0]
            /\ UNCHANGED sitemap
    /\ UNCHANGED <<cacheVars, engineVars, staticVars, routes, engineGiven, concurrency, shouldGenerateSitemap, expandedRoutes,
                   chunks, wave, result, completed, task, rejectedBy, progress, fate,
                   stopped, files>>

TaskStep(i) ==
    \/ \E status \in RenderStatuses, dirExists \in BOOLEAN, d \in Decisions :
          RenderDone(i, status, dirExists, d)
    \/ \E ok \in BOOLEAN, d \in Decisions : MkdirDone(i, ok, d)
    \/ \E ok \in BOOLEAN, d \in Decisions : WriteDone(i, ok, d)

PrerenderNext ==
    \/ Configure
    \/ Expand
    \/ \E exists \in BOOLEAN, ok \in BOOLEAN : MkOutputDir(exists, ok)
    \/ Dispatch
    \/ Join
    \/ \E i \in 1..MaxRoutes : TaskStep(i)
    \/ \E ok \in BOOLEAN, baseUrl \in BaseUrls : Sitemap(ok, baseUrl)

(***************************************************************************)
(* The loop of chunk, as prerenderRoutes calls it, one iteration a step.   *)
(***************************************************************************)
MaxTasks == 7
\* largest number of expanded routes handed to chunk

\* the iterations of the loop that are followed
MaxChunks == MaxTasks + 1

\* concurrency = 5 in the destructuring of the options
DefaultConcurrency == 5

\* options.concurrency: not given, or a number
ConcurrencyOptions ==
    {[given |-> FALSE, value |-> 0]} \cup {[given |-> TRUE, value |-> v] : v \in -1..3}

\* the destructuring default applies to an absent (undefined) value only
destructuredConcurrency(opt) == IF opt.given THEN opt.value ELSE DefaultConcurrency

\* an index of Array.prototype.slice: a negative one counts from the end, and
\* every index is clamped to 0..len
SliceIndex(k, len) ==
    IF k < 0 THEN (IF len + k < 0 THEN 0 ELSE len + k)
    ELSE IF k > len THEN len ELSE k

sliceToEnd(array, start, end) ==
    SubSeq(array, SliceIndex(start, Len(array)) + 1, Len(array))

\* array.slice(start, end), indices counted from 0
slice(array, start, end) ==
    SubSeq(array, SliceIndex(start, Len(array)) + 1, SliceIndex(end, Len(array)))

\* the loop variable i: it starts at 0 and grows by size with every chunk pushed
ChunkLoopIndex(chs, size) == Len(chs) * size

\* prerenderRoutes has expanded n routes and calls chunk(expandedRoutes, concurrency)
ChunkInit ==
    /\ routes \in {[i \in 1..n |-> <<"/", "a">>] : n \in 0..MaxTasks}
    /\ engineGiven = TRUE
    /\ concurrency \in {destructuredConcurrency(opt) : opt \in ConcurrencyOptions}
    /\ shouldGenerateSitemap = FALSE
    /\ ppc = "chunk"
    /\ expandedRoutes = [i \in DOMAIN routes |->
                            [path |-> routes[i], outputPath |-> pathToOutputFile(routes[i])]]
    /\ chunks = << >>
    /\ wave = 0
    /\ result = [total |-> Len(routes), success |-> 0, failed |-> 0, routes |-> << >>]
    /\ completed = 0
    /\ task = [i \in DOMAIN routes |-> "pending"]
    /\ rejectedBy = 0
    /\ outcome = [kind |-> "pending", reason |-> "none", task |-> 0]
    /\ progress = << >>
    /\ fate = [i \in DOMAIN routes |-> "none"]
    /\ stopped = {}
    /\ files = [f \in OutputPaths |-> 0]
    /\ sitemap = Absent

\* one iteration of the loop: i < array.length, chunks.push(array.slice(i, i + size))
ChunkPush ==
    /\ ppc = "chunk"
    /\ ChunkLoopIndex(chunks, concurrency) < Len(expandedRoutes)
    /\ Len(chunks) < MaxChunks
    /\ chunks' = Append(chunks,
                        slice(TaskIds(expandedRoutes), ChunkLoopIndex(chunks, concurrency),
                              ChunkLoopIndex(chunks, concurrency) + concurrency))
    /\ UNCHANGED <<cacheVars, engineVars, staticVars, routes, engineGiven, concurrency,
                   shouldGenerateSitemap, ppc, expandedRoutes, wave, result, completed, task,
                   rejectedBy, outcome, progress, fate, stopped, files, sitemap>>

\* the loop ends, chunk returns and prerenderRoutes goes on to its for loop
ChunkReturn ==
    /\ ppc = "chunk"
    /\ ~(ChunkLoopIndex(chunks, concurrency) < Len(expandedRoutes))
    /\ ppc' = "loop"
    /\ UNCHANGED <<cacheVars, engineVars, staticVars, routes, engineGiven, concurrency,
                   shouldGenerateSitemap, expandedRoutes, chunks, wave, result, completed, task,
                   rejectedBy, outcome, progress, fate, stopped, files, sitemap>>

ChunkNext ==
    \/ ChunkPush
    \/ ChunkReturn

(***************************************************************************)
(* The expansion of the routes, parameterized routes included.  Here a     *)
(* route is a record: isString tells a string from a PrerenderRoute        *)
(* object, getParams is "none" for an object without the callback and      *)
(* else tells whether the promise of the callback resolves (to paramSets)  *)
(* or rejects; outputPath is << >> when the object has none.  A parameter  *)
(* set is the sequence of its entries <<key, value>>.                      *)
(***************************************************************************)
MaxExpandRoutes == 2
\* largest number of routes given to prerenderRoutes in SpecExpand

KeyK == <<"k">>

ParamX == << <<KeyK, <<"x">>>> >>

ParamY == << <<KeyK, <<"y">>>> >>

StringRoute(path) ==
    [isString |-> TRUE, path |-> path, getParams |-> "none", paramSets |-> << >>,
     outputPath |-> << >>]

ObjectRoute(path, getParams, paramSets, outputPath) ==
    [isString |-> FALSE, path |-> path, getParams |-> getParams, paramSets |-> paramSets,
     outputPath |-> outputPath]

\* '/a' as a string and as an object; '/:k' and '/[k]/:k/:k' with parameter sets
\* that differ, collide or are none, with a callback that rejects, and with the
\* output templates '/:k' and 'o$path'
ExpandRouteChoices ==
    {StringRoute(<<"/", "a">>),
     ObjectRoute(<<"/", "a">>, "none", << >>, << >>),
     ObjectRoute(<<"/", ":", "k">>, "resolves", <<ParamX, ParamY>>, << >>),
     ObjectRoute(<<"/", ":", "k">>, "resolves", <<ParamX, ParamX>>, << >>),
     ObjectRoute(<<"/", ":", "k">>, "resolves", << >>, << >>),
     ObjectRoute(<<"/", ":", "k">>, "rejects", << >>, << >>),
     ObjectRoute(<<"/", "[", "k", "]", "/", ":", "k", "/", ":", "k">>, "resolves",
                 <<ParamX>>, <<"/", ":", "k">>),
     ObjectRoute(<<"/", ":", "k">>, "resolves", <<ParamX, ParamY>>, <<"o", "$path">>)}

RECURSIVE ReplaceFirst(_, _, _)
\* s.replace(pat, val) for a string pat: the first occurrence only
ReplaceFirst(s, pat, val) ==
    IF Len(s) < Len(pat) THEN s
    ELSE IF SubSeq(s, 1, Len(pat)) = pat
         THEN val \o SubSeq(s, Len(pat) + 1, Len(s))
         ELSE <<Head(s)>> \o ReplaceFirst(Tail(s), pat, val)

RECURSIVE ReplaceAll(_, _, _)
\* s.replace(/pat/g, val): every occurrence
ReplaceAll(s, pat, val) ==
    IF Len(s) < Len(pat) THEN s
    ELSE IF SubSeq(s, 1, Len(pat)) = pat
         THEN val \o ReplaceAll(SubSeq(s, Len(pat) + 1, Len(s)), pat, val)
         ELSE <<Head(s)>> \o ReplaceAll(Tail(s), pat, val)

RECURSIVE SubstituteParams(_, _)
\* the loop over Object.entries(params): `:${key}` and then `[${key}]` are replaced
SubstituteParams(expanded, entries) ==
    IF entries = << >> THEN expanded
    ELSE SubstituteParams(
             ReplaceFirst(ReplaceFirst(expanded, <<":">> \o Head(entries)[1], Head(entries)[2]),
                          <<"[">> \o Head(entries)[1] \o <<"]">>, Head(entries)[2]),
             Tail(entries))

RECURSIVE Dedup(_)
\* a sequence without the repetitions of its elements
Dedup(q) ==
    IF q = << >> THEN << >>
    ELSE LET front == Dedup(SubSeq(q, 1, Len(q) - 1))
         IN  IF \E k \in DOMAIN front : front[k] = q[Len(q)]
             THEN front ELSE Append(front, q[Len(q)])

expandRouteDeduped(route) ==
    IF route.getParams = "none"
    THEN <<route.path>>
    ELSE Dedup([k \in DOMAIN route.paramSets |->
                   SubstituteParams(route.path, route.paramSets[k])])

\* the paths expandRoute resolves to
expandRoute(route) ==
    IF route.getParams = "none"
    THEN <<route.path>>
    ELSE [k \in DOMAIN route.paramSets |-> SubstituteParams(route.path, route.paramSets[k])]

\* outputPath of the k-th task of an object route: the template with $path
\* replaced by the expanded path, or pathToOutputFile(path) without a template
OutputPathOf(route, k, path) ==
    IF route.outputPath # << >>
    THEN ReplaceAll(route.outputPath, <<"$path">>, path)
    ELSE pathToOutputFile(path)

\* what one route adds to expandedRoutes
ExpandedOf(route) ==
    IF route.isString
    THEN <<[path |-> route.path, outputPath |-> pathToOutputFile(route.path)]>>
    ELSE [k \in DOMAIN expandRoute(route) |->
             [path |-> expandRoute(route)[k],
              outputPath |-> OutputPathOf(route, k, expandRoute(route)[k])]]

RECURSIVE ExpandAll(_)
\* expandedRoutes after the loop over the routes
ExpandAll(rs) == IF rs = << >> THEN << >> ELSE ExpandedOf(Head(rs)) \o ExpandAll(Tail(rs))

\* await expandRoute(route) throws what the promise of getParams rejected with
ExpandRejects(rs) == \E i \in DOMAIN rs : rs[i].getParams = "rejects"

ExpandInit ==
    /\ routes \in SeqsUpTo(ExpandRouteChoices, MaxExpandRoutes)
    /\ engineGiven \in BOOLEAN
    /\ concurrency = DefaultConcurrency
    /\ shouldGenerateSitemap = TRUE
    /\ ppc = "start"
    /\ expandedRoutes = << >>
    /\ chunks = << >>
    /\ wave = 0
    /\ result = [total |-> 0, success |-> 0, failed |-> 0, routes |-> << >>]
    /\ completed = 0
    /\ task = << >>
    /\ rejectedBy = 0
    /\ outcome = [kind |-> "pending", reason |-> "none", task |-> 0]
    /\ progress = << >>
    /\ fate = << >>
    /\ stopped = {}
    /\ files = [f \in OutputPaths |-> 0]
    /\ sitemap = Absent

\* "Expand all routes" and the initial result; the call is rejected when the
\* callback of a route rejects, nothing having been rendered
ExpandRoutes ==
    /\ ppc = "expand"
    /\ IF ExpandRejects(routes)
       THEN /\ ppc' = "rejected"
            /\ outcome' = [kind |-> "rejected", reason |-> "getParams", task |-> 0]
            /\ UNCHANGED <<expandedRoutes, result, task, fate>>
       ELSE /\ expandedRoutes' = ExpandAll(routes)
            /\ result' = [total |-> Len(expandedRoutes'), success |-> 0, failed |-> 0,
                          routes |-> << >>]
            /\ task' = [i \in DOMAIN expandedRoutes' |-> "pending"]
            /\ fate' = [i \in DOMAIN expandedRoutes' |-> "none"]
            /\ ppc' = "mkdir"
            /\ UNCHANGED outcome
    /\ UNCHANGED <<cacheVars, engineVars, staticVars, routes, engineGiven, concurrency,
                   shouldGenerateSitemap, chunks, wave, completed, rejectedBy, progress,
                   stopped, files, sitemap>>

ExpandNext ==
    \/ Configure
    \/ ExpandRoutes

\* prerenderRoutes takes no part in Spec and SpecEngine
PrerenderOff ==
    /\ routes = << >>
    /\ engineGiven = FALSE
    /\ concurrency = 1
    /\ shouldGenerateSitemap = FALSE
    /\ ppc = "off"
    /\ expandedRoutes = << >>
    /\ chunks = << >>
    /\ wave = 0
    /\ result = [total |-> 0, success |-> 0, failed |-> 0, routes |-> << >>]
    /\ completed = 0
    /\ task = << >>
    /\ rejectedBy = 0
    /\ outcome = [kind |-> "pending", reason |-> "none", task |-> 0]
    /\ progress = << >>
    /\ fate = << >>
    /\ stopped = {}
    /\ files = [f \in OutputPaths |-> 0]
    /\ sitemap = Absent

\* the cache takes no part in SpecPrerender
CacheOff ==
    /\ cache = << >>
    /\ maxSize = 1
    /\ tick = 0
    /\ touched = [k \in Keys |-> 0]
    /\ lastOp = [op |-> "new", key |-> Undefined, ret |-> Undefined, atCap |-> FALSE,
                had |-> FALSE]
    /\ live = [k \in Keys |-> Undefined]

\* the engine takes no part in Spec and SpecPrerender
EngineOff ==
    /\ cacheOn = FALSE
    /\ cacheTtl = 0
    /\ indexHtmlContent = FALSE
    /\ now = 0
    /\ calls = {}
    /\ started = 0
    /\ returned = NoCall
    /\ inFlightAtClear = {}

(***************************************************************************)
(* BunStaticFileHandler.                                                   *)
(***************************************************************************)
MaxPathLen == 4
\* longest urlPath given to lookup

MaxMtime == 1
\* latest modification time of a file, in ms

\* a second, in ms (1000, scaled)
MsPerSecond == 2

\* the characters of a urlPath
PathChars == {"/", "\\", ".", "a"}

UrlPaths == SeqsUpTo(PathChars, MaxPathLen)

\* the urlPaths serve is called with: "/a"
ServePaths == {<<"/", "a">>}

\* a path on disk is the sequence of its segments, a segment the sequence of
\* its characters; "index.html", ".br" and ".gz" stand as one character each
Root == << <<"r">> >>

IndexFile == <<"index.html">>

PathA == Root \o << <<"a">> >>

PathABr == Root \o << <<"a", ".br">> >>

PathAGz == Root \o << <<"a", ".gz">> >>

PathAIndex == PathA \o <<IndexFile>>

PathRootIndex == Root \o <<IndexFile>>

\* a file beside the root directory
PathOutside == << <<"a">> >>

DiskPaths == {Root, PathA, PathABr, PathAGz, PathAIndex, PathRootIndex, PathOutside}

NoStats == [kind |-> "none", size |-> 0, mtime |-> 0]

FileStats(size) == [kind |-> "file", size |-> size, mtime |-> 0]

\* the sizes of the files on disk
Sizes == {1}

DirStats == [kind |-> "dir", size |-> 0, mtime |-> 0]

\* the disk with /r/a a file, a directory (holding index.html) or missing, and
\* with or without the compressed files /r/a.br and /r/a.gz
DiskWith(aKind, br, gz) ==
    [p \in DiskPaths |->
        CASE p = Root -> DirStats
          [] p = PathA -> IF aKind = "file" THEN FileStats(1)
                          ELSE IF aKind = "dir" THEN DirStats ELSE NoStats
          [] p = PathABr -> IF br THEN FileStats(1) ELSE NoStats
          [] p = PathAGz -> IF gz THEN FileStats(1) ELSE NoStats
          [] p = PathAIndex -> IF aKind = "dir" THEN FileStats(1) ELSE NoStats
          [] p = PathRootIndex -> FileStats(1)
          [] OTHER -> FileStats(1)]

existsSync(d, p) == p \in DOMAIN d /\ d[p].kind # "none"

isDirectory(d, p) == p \in DOMAIN d /\ d[p].kind = "dir"

statSync(d, p) == [size |-> d[p].size, mtime |-> d[p].mtime]

\* this.exclude.some((pattern) => pattern.test(urlPath))
isExcludedNever(excl, urlPath) == FALSE

isExcluded(excl, urlPath) == excl = "a" /\ \E i \in DOMAIN urlPath : urlPath[i] = "a"

\* urlPath.replace(/\\/g, '/')
ReplaceBackslashes(p) == [i \in DOMAIN p |-> IF p[i] = "\\" THEN "/" ELSE p[i]]

RECURSIVE DropDots(_)
\* the rest of p after the dots it starts with
DropDots(p) == IF Len(p) > 0 /\ p[1] = "." THEN DropDots(Tail(p)) ELSE p

RemoveDotRunsNot(p) == p

RECURSIVE RemoveDotRuns(_)
\* .replace(/\.\.+/g, ''): every run of two or more dots is removed
RemoveDotRuns(p) ==
    IF Len(p) = 0 THEN p
    ELSE IF Len(p) >= 2 /\ p[1] = "." /\ p[2] = "."
         THEN RemoveDotRuns(DropDots(p))
         ELSE <<p[1]>> \o RemoveDotRuns(Tail(p))

RECURSIVE Split(_, _)
\* normalized.split('/'), as the segment being read (cur) and the characters left
Split(cur, p) ==
    IF Len(p) = 0 THEN <<cur>>
    ELSE IF p[1] = "/"
         THEN <<cur>> \o Split(<< >>, Tail(p))
         ELSE Split(Append(cur, p[1]), Tail(p))

\* normalized.split('/').filter(Boolean)
resolveSegments(urlPath) ==
    SelectSeq(Split(<< >>, RemoveDotRuns(ReplaceBackslashes(urlPath))), LAMBDA s : s # << >>)

RECURSIVE Normalize(_, _)
\* path.normalize of an absolute path: "." is dropped, ".." drops the segment
\* before it (at "/" it is dropped itself)
Normalize(done, segs) ==
    IF Len(segs) = 0 THEN done
    ELSE IF segs[1] = <<".">> THEN Normalize(done, Tail(segs))
    ELSE IF segs[1] = <<".", ".">>
         THEN Normalize(IF Len(done) = 0 THEN done ELSE SubSeq(done, 1, Len(done) - 1),
                        Tail(segs))
         ELSE Normalize(Append(done, segs[1]), Tail(segs))

\* path.join(base, ...segments)
join(base, segs) == Normalize(<< >>, base \o segs)

resolveFilePath(urlPath) == join(Root, resolveSegments(urlPath))

RECURSIVE CommonPrefixLen(_, _)
CommonPrefixLen(p, q) ==
    IF Len(p) = 0 \/ Len(q) = 0 \/ p[1] # q[1] THEN 0
    ELSE 1 + CommonPrefixLen(Tail(p), Tail(q))

\* path.relative(from, to) of two absolute paths
relative(from, to) ==
    LET n == CommonPrefixLen(from, to)
    IN  [i \in 1..(Len(from) - n) |-> <<".", ".">>] \o SubSeq(to, n + 1, Len(to))

\* relativePath.startsWith('..') || relativePath.startsWith('/')
EscapesRoot(rel) ==
    Len(rel) > 0 /\ Len(rel[1]) >= 2 /\ rel[1][1] = "." /\ rel[1][2] = "."

\* `${filePath}.br`, `${filePath}.gz`
WithSuffix(p, suffix) == [p EXCEPT ![Len(p)] = Append(@, suffix)]

\* filePath.replace(/\.(br|gz)$/, '')
StripCompressedSuffix(p) ==
    IF Len(p) > 0 /\ Len(p[Len(p)]) > 0 /\ p[Len(p)][Len(p[Len(p)])] \in {".br", ".gz"}
    THEN [p EXCEPT ![Len(p)] = SubSeq(@, 1, Len(@) - 1)]
    ELSE p

\* the descriptor of an excluded or escaping path (filePath '')
NotFound ==
    [filePath |-> << >>, exists |-> FALSE, compressed |-> "none", stats |-> [size |-> 0, mtime |-> 0]]

\* a choice of the compressed file that looks for .gz before .br
compressedVariantGzipFirst(d, comp, filePath) ==
    IF comp /\ existsSync(d, WithSuffix(filePath, ".gz")) THEN "gzip"
    ELSE IF comp /\ existsSync(d, WithSuffix(filePath, ".br")) THEN "br"
    ELSE "none"

\* "Check for compressed versions": .br first, then .gz
compressedVariant(d, comp, filePath) ==
    IF comp /\ existsSync(d, WithSuffix(filePath, ".br")) THEN "br"
    ELSE IF comp /\ existsSync(d, WithSuffix(filePath, ".gz")) THEN "gzip"
    ELSE "none"

\* lookup: the StaticFileResult (without mimeType and cacheControl)
lookup(d, comp, excl, urlPath) ==
    IF isExcluded(excl, urlPath) THEN NotFound
    ELSE IF EscapesRoot(relative(Root, resolveFilePath(urlPath))) THEN NotFound
    ELSE LET resolved == resolveFilePath(urlPath)
             filePath == IF existsSync(d, resolved) /\ isDirectory(d, resolved)
                         THEN join(resolved, <<IndexFile>>) ELSE resolved
             compressed == compressedVariant(d, comp, filePath)
             actualPath == IF compressed = "br" THEN WithSuffix(filePath, ".br")
                           ELSE IF compressed = "gzip" THEN WithSuffix(filePath, ".gz")
                           ELSE filePath
         IN  IF ~existsSync(d, actualPath)
             THEN [filePath |-> filePath, exists |-> FALSE, compressed |-> "none",
                   stats |-> [size |-> 0, mtime |-> 0]]
             ELSE [filePath |-> actualPath, exists |-> TRUE, compressed |-> compressed,
                   stats |-> statSync(d, actualPath)]

\* a request: its Accept-Encoding (the encodings it names), If-None-Match and
\* If-Modified-Since headers (<< >>: no such header); NoRequest: serve is
\* called without a request
NoRequest ==
    [given |-> FALSE, acceptEncoding |-> {}, ifNoneMatch |-> << >>, ifModifiedSince |-> << >>]

\* `"${size}-${mtime.getTime()}"`
ETag(stats) == <<stats.size, "-", stats.mtime>>

\* mtime.toUTCString(): a date to the second
toUTCString(mtime) == <<"date", mtime \div MsPerSecond>>

\* new Date(header): the time in ms, or an invalid date
ParseDate(header) ==
    IF Len(header) = 2
    THEN [valid |-> TRUE, ms |-> header[2] * MsPerSecond]
    ELSE [valid |-> FALSE, ms |-> 0]

Requests ==
    {NoRequest} \cup
    [given : {TRUE},
     acceptEncoding : SUBSET {"br", "gzip"},
     ifNoneMatch : {<< >>} \cup {ETag([size |-> s, mtime |-> t]) : s \in Sizes, t \in 0..MaxMtime},
     ifModifiedSince : {<< >>, <<"invalid">>}
                       \cup {<<"date", sec>> : sec \in 0..MaxMtime}]

NotModifiedIgnoringDate(req, stats) == req.ifNoneMatch = ETag(stats)

\* "Handle conditional requests": the answer is 304
NotModified(req, stats) ==
    \/ req.ifNoneMatch = ETag(stats)
    \/ /\ Len(req.ifModifiedSince) > 0
       /\ ParseDate(req.ifModifiedSince).valid
       /\ stats.mtime <= ParseDate(req.ifModifiedSince).ms

NoBody == << >>

\* serve returns null
NullResponse ==
    [status |-> 0, body |-> NoBody, etag |-> << >>, lastModified |-> << >>,
     contentEncoding |-> "none"]

UseCompressedWhenFound(found, req) == found.compressed # "none"

\* "Check Accept-Encoding for compressed responses": useCompressed
UseCompressed(found, req) ==
    /\ found.compressed # "none" /\ req.given
    /\ \/ found.compressed = "br" /\ "br" \in req.acceptEncoding
       \/ found.compressed = "gzip" /\ "gzip" \in req.acceptEncoding

\* serve, once lookup has returned found: the Response (status, body as the
\* path of the file sent, ETag, Last-Modified and Content-Encoding headers)
respond(found, req) ==
    LET useCompressed == UseCompressed(found, req)
        filePath == IF useCompressed THEN found.filePath
                    ELSE StripCompressedSuffix(found.filePath)
        headers == [status |-> 200, body |-> filePath, etag |-> ETag(found.stats),
                    lastModified |-> toUTCString(found.stats.mtime),
                    contentEncoding |-> IF useCompressed THEN found.compressed ELSE "none"]
    IN  IF ~found.exists THEN NullResponse
        ELSE IF req.given /\ NotModified(req, found.stats)
             THEN [headers EXCEPT !.status = 304, !.body = NoBody]
             ELSE headers

serve(d, comp, excl, urlPath, req) == respond(lookup(d, comp, excl, urlPath), req)

NoOut ==
    [op |-> "none", urlPath |-> << >>, req |-> NoRequest, found |-> NotFound,
     response |-> NullResponse, reusedEtag |-> FALSE]

StaticInit ==
    /\ compression \in BOOLEAN
    /\ exclude \in {"none", "a"}
    /\ disk \in {DiskWith(k, br, gz) : k \in {"none", "file", "dir"}, br \in BOOLEAN,
                                       gz \in BOOLEAN}
    /\ requested \in UrlPaths
    /\ staticOut = NoOut

Lookup ==
    /\ staticOut' = [NoOut EXCEPT !.op = "lookup", !.urlPath = requested,
                                  !.found = lookup(disk, compression, exclude, requested)]
    /\ UNCHANGED <<compression, exclude, disk, requested, cacheVars, engineVars,
                   prerenderVars>>

\* serve (lookup, then the Response for the request); reusedEtag (history): the request presents as If-None-Match the ETag
\* that the call before, a serve, returned
Serve ==
    /\ requested \in ServePaths
    /\ LET found == lookup(disk, compression, exclude, requested)
       IN  \E req \in Requests :
              staticOut' = [op |-> "serve", urlPath |-> requested, req |-> req,
                            found |-> found,
                            response |-> respond(found, req),
                            reusedEtag |-> /\ staticOut.op = "serve"
                                           /\ staticOut.response.status = 200
                                           /\ req.ifNoneMatch = staticOut.response.etag]
    /\ UNCHANGED <<compression, exclude, disk, requested, cacheVars, engineVars,
                   prerenderVars>>

\* a file on disk is written anew: its modification time moves on
Touch(p) ==
    /\ disk[p].kind = "file"
    /\ disk[p].mtime < MaxMtime
    /\ disk' = [disk EXCEPT ![p].mtime = @ + 1]
    /\ UNCHANGED <<compression, exclude, requested, staticOut, cacheVars, engineVars,
                   prerenderVars>>

StaticNext ==
    \/ Lookup
    \/ Serve
    \/ \E p \in {PathA, PathAIndex} : Touch(p)

\* the static file handler takes no part in Spec, SpecEngine and SpecPrerender
StaticOff ==
    /\ compression = FALSE
    /\ exclude = "none"
    /\ disk = DiskWith("none", FALSE, FALSE)
    /\ requested = << >>
    /\ staticOut = NoOut

(***************************************************************************)
(* The specifications.                                                     *)
(***************************************************************************)
Init == CacheInit /\ EngineOff /\ PrerenderOff /\ StaticOff

Next == CacheNext

Spec == Init /\ [][Next]_vars

InitEngine == EngineInit /\ PrerenderOff /\ StaticOff

NextEngine == EngineNext

SpecEngine == InitEngine /\ [][NextEngine]_vars

InitPrerender == PrerenderInit /\ CacheOff /\ EngineOff /\ StaticOff

NextPrerender == PrerenderNext

SpecPrerender == InitPrerender /\ [][NextPrerender]_vars

InitChunk == ChunkInit /\ CacheOff /\ EngineOff /\ StaticOff

NextChunk == ChunkNext

SpecChunk == InitChunk /\ [][NextChunk]_vars

\* the loop of chunk runs on while it can
SpecChunkFair == SpecChunk /\ WF_vars(ChunkPush) /\ WF_vars(ChunkReturn)

InitExpand == ExpandInit /\ CacheOff /\ EngineOff /\ StaticOff

NextExpand == ExpandNext

SpecExpand == InitExpand /\ [][NextExpand]_vars

InitStatic == StaticInit /\ CacheOff /\ EngineOff /\ PrerenderOff

NextStatic == StaticNext

SpecStatic == InitStatic /\ [][NextStatic]_vars

(***************************************************************************)
(* Claims about the LRUCache                                               *)
(***************************************************************************)

\* C1: a cache built with capacity C >= 1 never stores more than C entries,
\* whatever set, get, has, delete and clear calls were made.
C1_SizeNeverExceedsCapacity == LRUSize(cache) <= maxSize

\* C1 witness: a set of a new key has just been made on a full cache.
C1_Witness == lastOp.op = "set" /\ lastOp.atCap /\ LRUSize(cache) = maxSize

\* C2: a set of a new key on a full cache removes exactly one stored entry, the
\* one whose latest touch (set, or get that found it) is the oldest; all other
\* entries stay, with their values.
C2_EvictsLeastRecentlyTouched ==
    [][ (lastOp'.op = "set" /\ ~MapHas(cache, lastOp'.key) /\ LRUSize(cache) >= maxSize)
        => \E victim \in MapKeys(cache) :
              /\ MapKeys(cache') = (MapKeys(cache) \ {victim}) \cup {lastOp'.key}
              /\ \A k \in MapKeys(cache) : touched[victim] <= touched[k]
              /\ \A k \in MapKeys(cache) \ {victim} : MapGet(cache', k) = MapGet(cache, k)
      ]_vars

\* C2 witness: a new key has just been set on a full cache of capacity 2; the
\* entry that stayed had been touched after a key that is no longer stored.
C2_Witness ==
    /\ lastOp.op = "set" /\ lastOp.atCap
    /\ maxSize = 2 /\ LRUSize(cache) = 2
    /\ \E gone \in Keys \ MapKeys(cache) :
          touched[gone] > 0 /\ touched[gone] < touched[cache[1].key]

\* C17: a get returns the value of the latest set of its key, provided the key
\* was not evicted, deleted or cleared since; a get of a key that was never
\* set, or was removed since its latest set, returns undefined. (An LRUCache
\* knows no expiry.)
C17_GetReturnsLatestSet ==
    lastOp.op = "get" =>
        /\ lastOp.ret = live[lastOp.key]
        /\ touched[lastOp.key] = 0 => lastOp.ret = Undefined

\* C17 witness: a get has returned v2 for a key of a cache holding two entries.
C17_Witness ==
    /\ lastOp.op = "get" /\ lastOp.ret = "v2"
    /\ LRUSize(cache) = 2
    /\ cache[2] = [key |-> lastOp.key, value |-> "v2"]

\* C18: a set of a key that is stored replaces its value and evicts nothing,
\* also on a full cache: the size stays, every other entry keeps its value and
\* its place among the others, and the key becomes the most recently used.
C18_OverwriteEvictsNothing ==
    [][ (lastOp'.op = "set" /\ MapHas(cache, lastOp'.key))
        => /\ LRUSize(cache') = LRUSize(cache)
           /\ MapKeys(cache') = MapKeys(cache)
           /\ MapDelete(cache', lastOp'.key) = MapDelete(cache, lastOp'.key)
           /\ cache'[Len(cache')] = [key |-> lastOp'.key, value |-> live'[lastOp'.key]]
      ]_vars

\* C18 witness: a key stored in a full cache of capacity 2 has just been set
\* again; both entries are stored and the key is the most recently used.
C18_Witness ==
    /\ lastOp.op = "set" /\ lastOp.had
    /\ maxSize = 2 /\ LRUSize(cache) = 2
    /\ cache[2].key = lastOp.key

\* C19: delete(k) returns true iff k was stored; after it k is absent, the size
\* is one less exactly when it returned true, and the other entries keep their
\* values and order. After clear the cache is empty: size 0, every key absent.
C19_DeleteAndClear ==
    [][ /\ lastOp'.op = "delete" =>
              /\ lastOp'.ret = MapHas(cache, lastOp'.key)
              /\ ~LRUHas(cache', lastOp'.key)
              /\ LRUSize(cache') = LRUSize(cache) - (IF lastOp'.ret THEN 1 ELSE 0)
              /\ cache' = SelectSeq(cache, LAMBDA e : e.key # lastOp'.key)
        /\ lastOp'.op = "clear" =>
              /\ LRUSize(cache') = 0
              /\ \A k \in Keys : ~LRUHas(cache', k) /\ LRUGetValue(cache', k) = Undefined
      ]_vars

\* C19 witness: a delete has returned true for one of two stored keys, the
\* older one; the other entry is still stored.
C19_Witness ==
    /\ lastOp.op = "delete" /\ lastOp.ret = TRUE
    /\ LRUSize(cache) = 1
    /\ touched[lastOp.key] < touched[cache[1].key]

(***************************************************************************)
(* Claims about BunAngularEngine.render                                    *)
(***************************************************************************)

\* C3: a result has fromCache = TRUE only if the entry found for the key had
\* now < expiresAt when it was looked up; a call whose lookup found an entry
\* that had expired is not answered from the cache: it goes on to render, and
\* returns the page it rendered itself or the error page.
C3_ServedOnlyBeforeExpiry ==
    /\ returned.fromCache => returned.lookupAt < returned.servedExpiresAt
    /\ \A c \in calls \cup {returned} :
          c.foundStale =>
              /\ ~c.fromCache
              /\ c.pc \in {"rendering", "done"}
              /\ c.pc = "done" => c.html \in {c.id, ErrorPage}

\* C3 witness: a call found the entry of its key expired, rendered the page
\* again and stored the new page in place of the expired entry.
C3_Witness ==
    /\ returned.foundStale
    /\ returned.pc = "done" /\ returned.status = 200
    /\ MapHas(cache, returned.key)
    /\ MapGet(cache, returned.key).html = returned.id

\* the entries of the cache, whatever their order
CacheEntries(m) == {m[i] : i \in DOMAIN m}

\* C10: a render in which renderApplication or the loading of the template failed
\* returns status 500 with fromCache = FALSE and leaves every cache entry as it
\* was, none added and none replaced; so every stored entry has status 200 and
\* no result served from the cache is an error page.
C10_FailedRenderNeverCached ==
    /\ [](/\ \A e \in CacheEntries(cache) :
                e.value.status = 200 /\ e.value.html # ErrorPage
          /\ returned.fromCache => returned.status = 200 /\ returned.html # ErrorPage)
    /\ [][ (returned' # returned /\ returned'.failure # "none")
           => /\ returned'.status = 500
              /\ ~returned'.fromCache
              /\ CacheEntries(cache') = CacheEntries(cache) ]_vars

\* C10 witness: with caching on, a render that used the cache failed for a key
\* whose expired entry is still stored.
C10_Witness ==
    /\ cacheOn
    /\ returned.failure = "render" /\ returned.status = 500
    /\ ~returned.skipCache /\ returned.foundStale
    /\ MapHas(cache, returned.key)

\* C11 as stated: every render call that has ended has resolved to a
\* RenderResult (status 200 or 500), for every url and every failure of
\* renderApplication; none has rejected.
C11_RenderAlwaysResolves ==
    returned.pc # "none" => returned.pc = "done" /\ returned.status \in {200, 500}

\* C12: a render called with skipCache = TRUE leaves the Map of the cache as it
\* was, entries and order, in each of its steps (the call itself and the
\* settling of renderApplication), and its result has fromCache = FALSE; the
\* tasks of prerenderRoutes call render with skipCache = TRUE.
C12_SkipCacheLeavesCacheAlone ==
    /\ [](returned.skipCache => ~returned.fromCache)
    /\ [][ ((returned' # returned /\ returned'.skipCache)
              \/ (\E c \in calls' \ calls : c.skipCache))
           => cache' = cache ]_vars
    /\ [](\A r \in RouteChoices : PrerenderRenderOptions(r).skipCache)

\* C12 witness: a call with skipCache = TRUE has rendered its page itself while
\* an unexpired entry of another call is stored for its key, and still is.
C12_Witness ==
    /\ returned.skipCache /\ returned.pc = "done" /\ returned.status = 200
    /\ ~returned.fromCache
    /\ MapHas(cache, returned.key)
    /\ MapGet(cache, returned.key).html < returned.id
    /\ now < MapGet(cache, returned.key).expiresAt

\* C13: when a render is called without skipCache on an engine with caching
\* enabled while an entry is stored for its key with now < expiresAt, it
\* returns at once, with fromCache = TRUE and the html, status and headers of
\* the entry; renderApplication is not called; the entry becomes the most
\* recently used one, the others keeping their order.
C13_ValidEntryIsServedAndTouched ==
    [][ \A c \in calls' \cup {returned'} :
          ( /\ started' # started /\ c.id = started' /\ c.pc # "rejected"
            /\ cacheOn /\ ~c.skipCache
            /\ MapHas(cache, c.key)
            /\ now < MapGet(cache, c.key).expiresAt )
          => /\ returned' = c /\ c.pc = "done"
             /\ c.fromCache
             /\ c.html = MapGet(cache, c.key).html
             /\ c.status = MapGet(cache, c.key).status
             /\ c.headers = MapGet(cache, c.key).headers
             /\ calls' = calls
             /\ cache'[Len(cache')] = [key |-> c.key, value |-> MapGet(cache, c.key)]
             /\ MapDelete(cache', c.key) = MapDelete(cache, c.key) ]_vars

\* C13 witness: at a later time than it was stored, an entry was served from
\* the cache; it is the most recently used of two entries although the other
\* one was stored after it.
C13_Witness ==
    /\ returned.fromCache /\ returned.status = 200
    /\ Len(cache) = 2 /\ cache[2].key = returned.key
    /\ cache[2].value.html = returned.html
    /\ cache[2].value.html < cache[1].value.html
    /\ returned.lookupAt > cache[2].value.timestamp

\* C16 as stated: get returns an entry only if it is unexpired: for a stored
\* entry whose expiresAt has passed get returns undefined, so no lookup of
\* render is handed an expired entry by get.
C16_GetReturnsOnlyUnexpired ==
    /\ \A i \in DOMAIN cache :
          now >= cache[i].value.expiresAt => ~LRUGetFound(cache, cache[i].key)
    /\ \A c \in calls \cup {returned} : ~c.foundStale

\* C20 as stated: every entry stored by a successful render has expiresAt =
\* time of storing + configured TTL and expiresAt > timestamp, whatever the
\* cacheTtl the engine was constructed with.
C20_StoredEntriesExpireAfterCreation ==
    \A i \in DOMAIN cache :
        /\ cache[i].value.expiresAt = cache[i].value.timestamp + cacheTtl
        /\ cache[i].value.expiresAt > cache[i].value.timestamp

\* the calls whose page a cache holds: the html of an entry is the id of the
\* call that rendered it
ProducersOf(m) == {m[i].value.html : i \in DOMAIN m}

\* C36 as stated: once clearCache has returned, the cache holds no page of a
\* render that awaited renderApplication when it was cleared, and no render is
\* served such a page from the cache.
C36_ClearDropsInFlightRenders ==
    /\ ProducersOf(cache) \cap inFlightAtClear = {}
    /\ returned.fromCache => returned.html \notin inFlightAtClear

\* a step in which a successful render stores its page
StoresPage ==
    /\ returned' # returned
    /\ returned'.status = 200 /\ ~returned'.fromCache /\ ~returned'.skipCache
    /\ cacheOn

\* C37: a render whose lookup finds an entry that has expired leaves the entry
\* stored, with the value it had, and makes it the most recently used one, the
\* other entries keeping their order and the size staying the same; an expired
\* entry leaves the cache or changes only when a successful render of its key
\* overwrites it, when it is the least recently used entry of a full cache
\* into which a successful render inserts another key, or when the cache is
\* cleared; the failure of a render changes no entry; an insert into a full
\* cache evicts the least recently used entry, expired or not, and keeps every
\* other entry, expired or not.
C37_ExpiredEntryStaysAndIsTouched ==
    /\ [][ \A c \in calls' \cup {returned'} :
              (started' # started /\ c.id = started' /\ c.foundStale)
              => /\ MapHas(cache, c.key)
                 /\ now >= MapGet(cache, c.key).expiresAt
                 /\ LRUHas(cache', c.key)
                 /\ LRUSize(cache') = LRUSize(cache)
                 /\ cache'[Len(cache')] = [key |-> c.key, value |-> MapGet(cache, c.key)]
                 /\ MapDelete(cache', c.key) = MapDelete(cache, c.key) ]_vars
    /\ [][ \A i \in DOMAIN cache :
              now >= cache[i].value.expiresAt
              => \/ cache[i] \in CacheEntries(cache')
                 \/ cache' = << >> /\ returned' = returned /\ calls' = calls
                 \/ StoresPage /\ returned'.key = cache[i].key
                 \/ /\ StoresPage /\ ~MapHas(cache, returned'.key)
                    /\ i = 1 /\ Len(cache) = maxSize ]_vars
    /\ [][ (returned' # returned /\ returned'.failure # "none")
           => CacheEntries(cache') = CacheEntries(cache) ]_vars
    /\ [][ (StoresPage /\ ~MapHas(cache, returned'.key) /\ Len(cache) = maxSize)
           => /\ Len(cache') = maxSize
              /\ \A i \in 1..(maxSize - 1) : cache'[i] = cache[i + 1]
              /\ cache'[maxSize].key = returned'.key ]_vars

\* C37 witness: the cache of capacity 2 held the expired page of "/a" and
\* after it the unexpired page of "/c"; both calls have returned; the render
\* of "/a" found the expired page, made it the most recently used one and
\* failed, so the page is still stored as it was; the render of "/b" has
\* stored its page before the page of "/c" would have expired, and the page of
\* "/c" is the one that was evicted.
C37_Witness ==
    /\ maxSize = 2 /\ Len(cache) = 2
    /\ started = 2 /\ calls = {}
    /\ cache[1].key = "/a" /\ cache[1].value.html = 0
    /\ cache[1].value.expiresAt <= 0
    /\ cache[2].key = "/b" /\ cache[2].value.html = returned.id
    /\ returned.status = 200
    /\ ~MapHas(cache, "/c")
    /\ now < cacheTtl

\* C21: under every interleaving of render calls on one engine, each call
\* yielding only while renderApplication is pending, the cache holds at most
\* one entry per key and no more entries than its capacity; the calls that
\* await renderApplication at the same time may be for the same key, and each
\* of them that resolves returns the page it rendered itself, with status 200
\* and fromCache = FALSE.
C21_ConcurrentRendersKeepCacheConsistent ==
    /\ [](/\ \A i, j \in DOMAIN cache : cache[i].key = cache[j].key => i = j
          /\ LRUSize(cache) <= maxSize)
    /\ [][ \A c \in calls \ calls' :
              returned'.failure = "none" =>
                  /\ returned' = [c EXCEPT !.pc = "done", !.status = 200,
                                           !.html = c.id, !.headers = RenderedHeaders]
                  /\ ~returned'.fromCache ]_vars

\* C21 witness: two calls for the same key, neither skipping the cache of an
\* engine with caching on, awaited renderApplication at the same time; the one
\* called second has returned its own page and stored it while the one called
\* first is still rendering.
C21_Witness ==
    /\ cacheOn
    /\ returned.pc = "done" /\ returned.status = 200 /\ ~returned.fromCache
    /\ ~returned.skipCache
    /\ \E c \in calls :
          /\ c.key = returned.key /\ c.id < returned.id /\ ~c.skipCache
    /\ MapHas(cache, returned.key)
    /\ MapGet(cache, returned.key).html = returned.id

(***************************************************************************)
(* Claims about prerenderRoutes                                            *)
(***************************************************************************)
\* a task that was started and has not settled awaits render, mkdir or writeFile
InFlight == {i \in DOMAIN task : task[i] \in {"rendering", "mkdir", "writing"}}

Settled == {i \in DOMAIN task : task[i] \in {"fulfilled", "rejected"}}

\* the wave of task i: the place in the generation order of the group of
\* `concurrency` consecutive tasks that holds it
WaveOf(i) == ((i - 1) \div concurrency) + 1

\* the places in result.routes of the records of task i
RecordsOf(i) == {k \in DOMAIN result.routes : result.routes[k].id = i}

Failed == {i \in DOMAIN fate : fate[i] \notin {"none", "ok"}}

\* C4: with concurrency c >= 1, at most c tasks are started and not yet settled.
C4_AtMostConcurrencyInFlight == Cardinality(InFlight) <= concurrency

\* C4 witness: as many tasks as the limit allows are in flight while a further
\* task waits for its wave.
C4_Witness ==
    /\ concurrency = 2
    /\ Cardinality(InFlight) = 2
    /\ \E i \in DOMAIN task : task[i] = "pending"

\* C5: a task is started only when every task of every earlier wave has
\* settled, fulfilled or rejected.
C5_WaveStartsAfterEarlierWavesSettled ==
    \A i, j \in DOMAIN task :
        (WaveOf(j) < WaveOf(i) /\ task[i] # "pending") => j \in Settled

\* C5 witness: the second wave has started after the two tasks of the first wave
\* settled in the reverse of their generation order.
C5_Witness ==
    /\ concurrency = 2
    /\ \E i \in DOMAIN task : WaveOf(i) = 2 /\ task[i] = "rendering"
    /\ Len(result.routes) >= 2
    /\ result.routes[1].id = 2 /\ result.routes[2].id = 1

\* C6: onProgress is called once for each task that settles; the k-th call gets
\* completed = k and the same total, the number of tasks; completed reaches
\* total exactly when every task has settled.
C6_ProgressCountsEverySettledTask ==
    /\ \A k \in DOMAIN progress :
          /\ progress[k].completed = k
          /\ progress[k].total = Len(expandedRoutes)
    /\ Len(progress) = Cardinality(Settled)
    /\ \A r \in RouteChoices :
          Cardinality({k \in DOMAIN progress : progress[k].path = r})
             = Cardinality({i \in Settled : expandedRoutes[i].path = r})
    /\ Len(expandedRoutes) > 0 =>
          ((\E k \in DOMAIN progress : progress[k].completed = Len(expandedRoutes))
              <=> Settled = DOMAIN task)

\* C6 witness: three tasks, of which one failed and one succeeded, have all
\* settled and the last call of onProgress got completed = total = 3.
C6_Witness ==
    /\ Len(progress) = 3
    /\ progress[3].completed = 3 /\ progress[3].total = 3
    /\ \E i, j \in DOMAIN fate : fate[i] = "ok" /\ fate[j] = "render"

\* C7: when the error callback never answers false (or is absent) and the
\* output directory and the sitemap can be written, failing tasks do not end
\* the batch: the call is not rejected, and when it returns, every task has
\* been processed, total is the number of tasks, failed the number of failing
\* tasks, success = total - failed, every failing task has one record with
\* success = FALSE and an error message, and the files written are those of the
\* succeeding tasks.
C7_FailuresAreRecordedAndBatchGoesOn ==
    /\ outcome.kind = "rejected" =>
          stopped # {} \/ outcome.reason \in {"config", "mkdir", "sitemap"}
    /\ outcome.kind = "resolved" =>
          /\ result.total = Len(routes)
          /\ \A i \in DOMAIN fate : fate[i] # "none"
          /\ result.failed = Cardinality(Failed)
          /\ result.success = result.total - result.failed
          /\ \A i \in DOMAIN fate :
                /\ Cardinality(RecordsOf(i)) = 1
                /\ \A k \in RecordsOf(i) :
                      /\ result.routes[k].success = (i \notin Failed)
                      /\ i \in Failed => result.routes[k].error # "none"
          /\ {f \in OutputPaths : files[f] # 0}
                = {expandedRoutes[i].outputPath : i \in DOMAIN fate \ Failed}

\* C7 witness: of three tasks the second failed in render, the batch went on
\* and returned total = 3, success = 2, failed = 1.
C7_Witness ==
    /\ outcome.kind = "resolved"
    /\ result.total = 3 /\ result.success = 2 /\ result.failed = 1
    /\ fate[2] = "render"

\* the task for which onError answered false first
FirstStopped ==
    CHOOSE i \in stopped :
        \A j \in stopped : \A k \in RecordsOf(i), l \in RecordsOf(j) : k <= l

\* C8 as stated: for every task for which the error callback answered false, no
\* task of a later wave is ever started, the call does not return a result,
\* and it is rejected with that task's error.
C8_RejectsWithThatTasksError ==
    \A i \in stopped :
        /\ \A j \in DOMAIN task : WaveOf(j) > WaveOf(i) => task[j] = "pending"
        /\ outcome.kind # "resolved"
        /\ outcome.kind = "rejected" => outcome.reason = "task" /\ outcome.task = i

\* C8, amended: for every task for which the error callback answered false, no
\* task of a later wave is ever started, the call does not return a result, its
\* rejection is due as soon as the callback has answered, and it is rejected
\* with the error of the first task for which the callback answered false.
C8_RejectsWithFirstStoppedTasksError ==
    \A i \in stopped :
        /\ \A j \in DOMAIN task : WaveOf(j) > WaveOf(i) => task[j] = "pending"
        /\ outcome.kind # "resolved"
        /\ outcome.kind = "pending" => ppc = "join" /\ rejectedBy = FirstStopped
        /\ outcome.kind = "rejected" => outcome.reason = "task" /\ outcome.task = FirstStopped

\* C8 witness: the callback answered false for both tasks of the first wave,
\* the call is rejected and the wave after it was never started.
C8_Witness ==
    /\ Cardinality(stopped) = 2
    /\ outcome.kind = "rejected"
    /\ \E j \in DOMAIN task : WaveOf(j) = 2 /\ task[j] = "pending"

\* the tasks of the wave that was dispatched last
CurrentWave == {i \in DOMAIN task : WaveOf(i) = wave}

\* C9 as stated: once the error callback has answered false and the call has
\* ended, the caller has received the batch result, in which the outcome of
\* every task dispatched in the current wave is recorded.
C9_CallerReceivesResultWithRecords ==
    (stopped # {} /\ outcome.kind # "pending") =>
        /\ outcome.kind = "resolved"
        /\ \A i \in CurrentWave : i \in Settled => RecordsOf(i) # {}

\* C9, amended: once the error callback has answered false, no task dispatched
\* in the current wave is aborted: while it awaits render, mkdir or writeFile
\* it can still take its next step, also after the call was rejected; when it
\* has settled its outcome is recorded once in result.routes (and, on success,
\* its file is written); the caller, though, receives the rejection and never
\* this result.
C9_DispatchedTasksRunOnAndAreRecorded ==
    stopped # {} =>
        /\ outcome.kind \in {"pending", "rejected"}
        /\ \A i \in CurrentWave :
              /\ i \in InFlight => ENABLED TaskStep(i)
              /\ i \in Settled =>
                    /\ Cardinality(RecordsOf(i)) = 1
                    /\ \A k \in RecordsOf(i) : result.routes[k].success = (fate[i] = "ok")
                    /\ fate[i] = "ok" => files[expandedRoutes[i].outputPath] # 0

\* C9 witness: the call was rejected because of one task of the wave, and
\* another task of that wave has written its file and was recorded after it.
C9_Witness ==
    /\ outcome.kind = "rejected"
    /\ \E i \in stopped, j \in CurrentWave :
          /\ fate[j] = "ok"
          /\ \E k \in RecordsOf(i), l \in RecordsOf(j) : k < l

RECURSIVE Flatten(_)
\* the chunks laid end to end
Flatten(chs) == IF chs = << >> THEN << >> ELSE Head(chs) \o Flatten(Tail(chs))

\* C22: for concurrency c >= 1 the n expanded tasks are split, in generation
\* order, into ceil(n/c) consecutive waves; every wave but the last has exactly
\* c tasks, the last has from 1 to c, and every task is in exactly one wave;
\* these are the chunks the for loop of prerenderRoutes dispatches.
C22_TasksSplitIntoConsecutiveWaves ==
    (ppc = "loop" /\ concurrency >= 1) =>
        /\ Len(chunks) = (Len(expandedRoutes) + concurrency - 1) \div concurrency
        /\ \A k \in DOMAIN chunks : k < Len(chunks) => Len(chunks[k]) = concurrency
        /\ Len(chunks) > 0 => Len(chunks[Len(chunks)]) \in 1..concurrency
        /\ Flatten(chunks) = TaskIds(expandedRoutes)
        /\ chunks = chunk(TaskIds(expandedRoutes), concurrency)

\* C22 witness: 7 tasks and concurrency 3 have given waves of 3, 3 and 1 tasks.
C22_Witness ==
    /\ ppc = "loop"
    /\ Len(expandedRoutes) = 7 /\ concurrency = 3
    /\ chunks = <<(<<1, 2, 3>>), (<<4, 5, 6>>), (<<7>>)>>

\* C23 as stated: a concurrency <= 0 is replaced by a default or rejected, so
\* no iteration of the loop of chunk runs with a size <= 0, and prerenderRoutes
\* called with concurrency <= 0 and a route list that is not empty terminates:
\* its call of chunk returns, or the call has been rejected.
C23_NonPositiveConcurrencyTerminates ==
    /\ [][Len(chunks') > Len(chunks) => concurrency >= 1]_vars
    /\ (concurrency <= 0 /\ Len(expandedRoutes) > 0)
           ~> (ppc # "chunk" \/ outcome.kind # "pending")

\* C24: sitemap.xml is written only when sitemap generation is enabled, at
\* least one task succeeded and every wave has completed; for the baseUrl of
\* the call it then lists, for every path, as many <loc> entries of that path
\* resolved against baseUrl as tasks of that path succeeded, so one entry per
\* successful task and none for a failed one; and when the call returns its
\* result, sitemap.xml was written exactly when generation is enabled and a
\* task succeeded.
C24_SitemapListsSuccessfulTasks ==
    /\ sitemap.written =>
          /\ shouldGenerateSitemap /\ result.success > 0
          /\ wave = Len(chunks) /\ Settled = DOMAIN task
          /\ Len(sitemap.content) = Cardinality({i \in DOMAIN fate : fate[i] = "ok"})
          /\ \E b \in BaseUrls : \A r \in RouteChoices :
                Cardinality({k \in DOMAIN sitemap.content :
                                sitemap.content[k] = URLHref(r, b)})
                   = Cardinality({i \in DOMAIN fate :
                                     fate[i] = "ok" /\ expandedRoutes[i].path = r})
    /\ outcome.kind = "resolved" =>
          (sitemap.written <=> (shouldGenerateSitemap /\ result.success > 0))

\* C24 witness: of three tasks one failed; sitemap.xml lists the two that
\* succeeded, the path "b/" resolved against the directory of the base url.
C24_Witness ==
    /\ sitemap.written
    /\ Len(sitemap.content) = 2 /\ result.failed = 1
    /\ \E k \in DOMAIN sitemap.content :
          sitemap.content[k] = [origin |-> "https://example.com",
                                path |-> <<"/", "d", "/", "b", "/">>]

\* C25: a task whose render result has a status other than 200 fails there:
\* it never goes on to mkdir or writeFile and writes no file; the error
\* callback is asked about its path and decides whether the task's promise is
\* rejected; the task is counted as failed and recorded once, with its path,
\* success = FALSE and an error message.
C25_Non200StatusFailsTheTask ==
    /\ [](\A i \in DOMAIN task :
            /\ task[i] = "rendering" =>
                  /\ \A d \in Decisions :
                        ENABLED (/\ \E dirExists \in BOOLEAN : RenderDone(i, 500, dirExists, d)
                                 /\ fate'[i] = "render"
                                 /\ (task'[i] = "rejected") <=> (d = "false"))
                  /\ ~ENABLED (/\ \E dirExists \in BOOLEAN, d \in Decisions :
                                      RenderDone(i, 500, dirExists, d)
                               /\ task'[i] \in {"mkdir", "writing"})
            /\ fate[i] = "render" =>
                  /\ \A f \in OutputPaths : files[f] # i
                  /\ Cardinality(RecordsOf(i)) = 1
                  /\ \A k \in RecordsOf(i) :
                        /\ ~result.routes[k].success
                        /\ result.routes[k].error = "render"
                        /\ result.routes[k].path = expandedRoutes[i].path)
    /\ [][ \A i \in DOMAIN task :
              (fate[i] = "none" /\ fate'[i] = "render") =>
                  /\ files' = files
                  /\ result'.failed = result.failed + 1
                  /\ result'.success = result.success
                  /\ (i \in stopped') <=> (task'[i] = "rejected") ]_vars

\* C25 witness: a task's render gave status 500 while the file of its output
\* path had been written by an earlier task of the same path; the error
\* callback answered false for it, the file is still the earlier task's.
C25_Witness ==
    \E i \in stopped :
        /\ fate[i] = "render"
        /\ files[expandedRoutes[i].outputPath] \notin {0, i}
        /\ RecordsOf(i) # {}

\* the tasks that wrote the file f
WritersOf(f) ==
    {i \in DOMAIN fate : fate[i] = "ok" /\ expandedRoutes[i].outputPath = f}

\* C26 as stated: when tasks of one batch have the same output path none of
\* them is dropped, each is recorded, and once they have settled the file holds
\* the output of the one that is last in generation order, also when they ran
\* in the same wave.
C26_LastInGenerationOrderWins ==
    \A f \in OutputPaths :
        (\A i \in DOMAIN task : expandedRoutes[i].outputPath = f => i \in Settled)
            => /\ \A i \in WritersOf(f) : RecordsOf(i) # {}
               /\ \A i \in WritersOf(f) : files[f] >= i

\* C27 as stated: prerenderRoutes is rejected only when the error callback
\* returned false for a failed task or no engine could be had when the call was
\* configured; a failure that concerns a single route never rejects the call.
C27_RejectsOnlyOnStopOrMissingEngine ==
    outcome.kind = "rejected" => (stopped # {} \/ outcome.reason = "config")

\* the tasks whose mkdir or writeFile failed
FailedOnDisk == {i \in DOMAIN fate : fate[i] \in {"mkdir", "write"}}

\* for a task whose mkdir or writeFile failed the error callback decided
\* whether its promise is rejected, and it has one record, with success = FALSE
\* and the error; when the callback never answered false, the call is not
\* rejected because of a task and a result it returns covers every task
TaskDiskFailureIsATaskFailure ==
    /\ \A i \in FailedOnDisk :
          /\ (task[i] = "rejected") <=> (i \in stopped)
          /\ Cardinality(RecordsOf(i)) = 1
          /\ \A k \in RecordsOf(i) :
                ~result.routes[k].success /\ result.routes[k].error = fate[i]
    /\ stopped = {} =>
          /\ outcome.reason # "task"
          /\ outcome.kind = "resolved" => \A i \in DOMAIN fate : fate[i] # "none"

\* C28 as stated: a failure to create an output directory or to write an
\* output file is handled like a render failure of the affected task (the
\* callback is asked, the task is recorded as failed, and unless the callback
\* answers false the remaining tasks run and a result is returned); the call
\* is never rejected because a directory could not be created.
C28_DiskFailureNeverRejectsTheCall ==
    /\ TaskDiskFailureIsATaskFailure
    /\ outcome.kind = "rejected" => outcome.reason # "mkdir"

\* the number of tasks a route stands for: one for a literal path, one for each
\* parameter set of a parameterized route
TasksOf(route) == IF route.getParams = "none" THEN 1 ELSE Len(route.paramSets)

RECURSIVE TasksBefore(_, _)
\* the number of tasks of the routes before the i-th
TasksBefore(rs, i) == IF i <= 1 THEN 0 ELSE TasksBefore(rs, i - 1) + TasksOf(rs[i - 1])

\* C29: once the routes are expanded, the task list holds, in the order of the
\* route list, one task for each literal path, with the path as it was given,
\* and one task for each parameter set of a parameterized route, in the order
\* of the sets and with the set substituted into the path; nothing is removed,
\* so total is the number of literal paths plus the number of parameter sets
\* and tasks with equal paths are all kept.
C29_OneTaskPerLiteralAndParameterSet ==
    ppc = "mkdir" =>
        /\ Len(expandedRoutes) = TasksBefore(routes, Len(routes) + 1)
        /\ result.total = Len(expandedRoutes)
        /\ \A i \in DOMAIN routes : \A k \in 1..TasksOf(routes[i]) :
              expandedRoutes[TasksBefore(routes, i) + k].path
                 = IF routes[i].getParams = "none"
                   THEN routes[i].path
                   ELSE SubstituteParams(routes[i].path, routes[i].paramSets[k])

\* C29 witness: a literal path and a parameterized route whose two parameter
\* sets give the same path were expanded to three tasks, the last two equal.
C29_Witness ==
    /\ ppc = "mkdir"
    /\ Len(routes) = 2 /\ routes[1].isString /\ routes[2].getParams = "resolves"
    /\ Len(expandedRoutes) = 3 /\ result.total = 3
    /\ expandedRoutes[2].path = expandedRoutes[3].path

\* C30 as stated: for a parameterized route with an output-path template, the
\* output path of each expanded task is the template with the values of the
\* task's parameter set substituted for its placeholders, as they are
\* substituted into the source path.
C30_TemplatePlaceholdersSubstituted ==
    ppc = "mkdir" =>
        \A i \in DOMAIN routes :
            (routes[i].getParams = "resolves" /\ routes[i].outputPath # << >>) =>
                \A k \in 1..TasksOf(routes[i]) :
                    expandedRoutes[TasksBefore(routes, i) + k].outputPath
                       = SubstituteParams(routes[i].outputPath, routes[i].paramSets[k])

\* C31: when the expanded task list is empty, no task exists, so render,
\* onProgress and onError are never called and no file is written; no
\* sitemap is written; the call is not rejected once the output directory is
\* there, and it returns total = 0, success = 0, failed = 0 and no records.
C31_EmptyTaskListIsNoOpSuccess ==
    (engineGiven /\ ppc \notin {"start", "expand"} /\ Len(expandedRoutes) = 0) =>
        /\ task = << >> /\ InFlight = {}
        /\ progress = << >> /\ stopped = {} /\ completed = 0
        /\ \A f \in OutputPaths : files[f] = 0
        /\ ~sitemap.written
        /\ result = [total |-> 0, success |-> 0, failed |-> 0, routes |-> << >>]
        /\ outcome.kind = "rejected" => outcome.reason = "mkdir"
        /\ ppc = "sitemap" => /\ ENABLED (\E ok \in BOOLEAN, b \in BaseUrls : Sitemap(ok, b))
                              /\ ~ENABLED (\E ok \in BOOLEAN, b \in BaseUrls :
                                              Sitemap(ok, b) /\ outcome'.kind # "resolved")

\* C31 witness: a call with no routes and sitemap generation enabled has
\* returned its result.
C31_Witness ==
    /\ outcome.kind = "resolved"
    /\ routes = << >> /\ shouldGenerateSitemap
    /\ result.total = 0

\* C32: when neither an engine nor engineOptions is given, the first step of
\* the call rejects it with the configuration error, and that is the only
\* step it takes: the routes are never expanded (no parameter callback is
\* called), no task is started, no directory is created and no file or
\* sitemap is written.
C32_MissingEngineFailsAtOnce ==
    ~engineGiven =>
        /\ ppc \in {"start", "rejected"}
        /\ ppc = "start" => ENABLED Configure
        /\ ppc = "rejected" => outcome = [kind |-> "rejected", reason |-> "config", task |-> 0]
        /\ expandedRoutes = << >> /\ chunks = << >> /\ task = << >>
        /\ progress = << >> /\ result.routes = << >>
        /\ \A f \in OutputPaths : files[f] = 0
        /\ ~sitemap.written

\* C32 witness: a call with three routes and no engine has been rejected.
C32_Witness ==
    /\ ~engineGiven /\ Len(routes) = 3
    /\ outcome.kind = "rejected" /\ outcome.reason = "config"

\* C35: whenever a task awaits or has settled, that is in every state,
\* result.success + result.failed is the number of records in result.routes
\* and the number of onProgress calls made so far, which is the value
\* the last of them was given as completed, and it is at most total; when the
\* call returns its result it equals total and every expanded task has
\* exactly one record.
C35_CountsRecordsAndProgressAgree ==
    /\ result.success + result.failed = Len(result.routes)
    /\ Len(result.routes) = Len(progress)
    /\ Len(progress) > 0 => progress[Len(progress)].completed = Len(progress)
    /\ Len(progress) <= result.total
    /\ result.success = Cardinality({k \in DOMAIN result.routes : result.routes[k].success})
    /\ outcome.kind = "resolved" =>
          /\ result.success + result.failed = result.total
          /\ result.total = Len(expandedRoutes)
          /\ \A i \in DOMAIN expandedRoutes : Cardinality(RecordsOf(i)) = 1

\* C35 witness: of three tasks one has succeeded and one has failed while
\* another is still awaiting: two records, two onProgress calls,
\* success + failed = 2 < total = 3.
C35_Witness ==
    /\ result.total = 3 /\ result.success = 1 /\ result.failed = 1
    /\ Len(progress) = 2
    /\ InFlight # {}
    /\ outcome.kind = "pending"

(***************************************************************************)
(* Claims about BunStaticFileHandler                                       *)
(***************************************************************************)
\* the path is the root directory or lies below it
InsideRoot(p) == Len(p) >= Len(Root) /\ SubSeq(p, 1, Len(Root)) = Root

\* the characters hold a run of two or more dots
HasDotRun(chars) == \E i \in 1..(Len(chars) - 1) : chars[i] = "." /\ chars[i + 1] = "."

\* C14: for every urlPath, whatever its '..' runs and backslashes, the segments
\* that are joined with the root hold no backslash and no run of dots, so the
\* path resolved is inside the root; and lookup either reports exists = FALSE
\* or yields a filePath inside the root.
C14_LookupStaysInsideRoot ==
    staticOut.op # "none" =>
        /\ \A i \in DOMAIN resolveSegments(staticOut.urlPath) :
              /\ ~HasDotRun(resolveSegments(staticOut.urlPath)[i])
              /\ \A j \in DOMAIN resolveSegments(staticOut.urlPath)[i] :
                    resolveSegments(staticOut.urlPath)[i][j] \notin {"\\", "/"}
        /\ InsideRoot(resolveFilePath(staticOut.urlPath))
        /\ ~staticOut.found.exists \/ InsideRoot(staticOut.found.filePath)

\* C14 witness: a lookup of a urlPath that holds a backslash and a run of dots
\* has found a file inside the root, while a file of the same name exists
\* beside the root.
C14_Witness ==
    /\ staticOut.op = "lookup"
    /\ HasDotRun(staticOut.urlPath)
    /\ \E i \in DOMAIN staticOut.urlPath : staticOut.urlPath[i] = "\\"
    /\ staticOut.found.exists
    /\ staticOut.found.filePath = PathA
    /\ existsSync(disk, PathOutside)

\* a request without the headers serve reads
PlainRequest ==
    [given |-> TRUE, acceptEncoding |-> {}, ifNoneMatch |-> << >>, ifModifiedSince |-> << >>]

\* the urlPath matches a pattern of the exclude list
MatchesExclude(urlPath) == exclude = "a" /\ \E i \in DOMAIN urlPath : urlPath[i] = "a"

\* the file the urlPath stands for (the index file when it names a directory)
RequestedFile(urlPath) ==
    IF isDirectory(disk, resolveFilePath(urlPath))
    THEN resolveFilePath(urlPath) \o <<IndexFile>>
    ELSE resolveFilePath(urlPath)

\* nothing that lookup looks for is on disk: neither the file nor, with
\* compression enabled, a .br or .gz sibling of it
MissingOnDisk(urlPath) ==
    /\ ~existsSync(disk, RequestedFile(urlPath))
    /\ compression => /\ ~existsSync(disk, WithSuffix(RequestedFile(urlPath), ".br"))
                      /\ ~existsSync(disk, WithSuffix(RequestedFile(urlPath), ".gz"))

\* C33: for a urlPath that matches an exclude pattern, whatever is on disk, for
\* one whose resolved path escapes the root, and for one for which nothing is
\* on disk, lookup returns a descriptor with exists = FALSE and serve, called
\* for it with or without a request, returns null.
C33_NotFoundIsUniform ==
    (staticOut.op # "none"
       /\ \/ MatchesExclude(staticOut.urlPath)
          \/ EscapesRoot(relative(Root, resolveFilePath(staticOut.urlPath)))
          \/ MissingOnDisk(staticOut.urlPath))
    => /\ ~staticOut.found.exists
       /\ ~lookup(disk, compression, exclude, staticOut.urlPath).exists
       /\ staticOut.op = "serve" => staticOut.response = NullResponse
       /\ \A req \in {NoRequest, PlainRequest} :
              serve(disk, compression, exclude, staticOut.urlPath, req) = NullResponse

\* C33 witness: serve was called with a request for an excluded urlPath whose
\* file and compressed siblings are on disk, and returned null.
C33_Witness ==
    /\ staticOut.op = "serve" /\ staticOut.req.given
    /\ MatchesExclude(staticOut.urlPath)
    /\ existsSync(disk, PathA) /\ existsSync(disk, PathABr)
    /\ RequestedFile(staticOut.urlPath) = PathA
    /\ staticOut.response = NullResponse

\* the suffix of the compressed file of an encoding
SuffixOf(encoding) == IF encoding = "br" THEN ".br" ELSE ".gz"

\* C34: a Response of serve has a Content-Encoding header only if compression
\* is enabled, the compressed file of that encoding is on disk and the request
\* names the encoding in Accept-Encoding; its body is then that compressed
\* file. Without a request, with compression disabled, or when the request
\* names no encoding whose compressed file is on disk, and whenever there is no
\* Content-Encoding header, the body is the uncompressed path.
C34_CompressedOnlyWhenFoundAndAccepted ==
    (staticOut.op = "serve" /\ staticOut.response # NullResponse) =>
        /\ \A e \in {"br", "gzip"} :
              staticOut.response.contentEncoding = e =>
                  /\ compression
                  /\ existsSync(disk, WithSuffix(RequestedFile(staticOut.urlPath), SuffixOf(e)))
                  /\ staticOut.req.given /\ e \in staticOut.req.acceptEncoding
                  /\ staticOut.response.status = 200 =>
                        staticOut.response.body
                           = WithSuffix(RequestedFile(staticOut.urlPath), SuffixOf(e))
        /\ ( \/ ~compression
             \/ ~staticOut.req.given
             \/ \A e \in staticOut.req.acceptEncoding :
                   ~existsSync(disk, WithSuffix(RequestedFile(staticOut.urlPath), SuffixOf(e))) )
           => staticOut.response.contentEncoding = "none"
        /\ (staticOut.response.contentEncoding = "none" /\ staticOut.response.status = 200)
           => staticOut.response.body = RequestedFile(staticOut.urlPath)

\* C34 witness: only the .gz file is beside the file; a request that names br
\* and gzip was sent the .gz file with Content-Encoding gzip.
C34_Witness ==
    /\ staticOut.op = "serve" /\ staticOut.response.status = 200
    /\ staticOut.req.acceptEncoding = {"br", "gzip"}
    /\ existsSync(disk, PathA) /\ existsSync(disk, PathAGz) /\ ~existsSync(disk, PathABr)
    /\ staticOut.response.contentEncoding = "gzip"
    /\ staticOut.response.body = PathAGz

\* C38 as stated: the body of every Response of serve with status 200 is a
\* file that is on disk, also when lookup found only a compressed file and the
\* request does not name its encoding or there is no request.
C38_BodyIsAFileOnDisk ==
    (staticOut.op = "serve" /\ staticOut.response.status = 200)
    => existsSync(disk, staticOut.response.body)

\* C39 as stated: a request that follows a response with status 200 for the
\* same urlPath, the file found being the same and having the size and the
\* modification time it had, and presents as If-Modified-Since the
\* Last-Modified value of that response, gets 304.
C39_LastModifiedRoundTrip ==
    [][ ( /\ staticOut.op = "serve" /\ staticOut.response.status = 200
          /\ staticOut'.op = "serve" /\ staticOut'.urlPath = staticOut.urlPath
          /\ disk' = disk
          /\ staticOut'.found = staticOut.found
          /\ staticOut'.req.given
          /\ staticOut'.req.ifModifiedSince = staticOut.response.lastModified )
        => staticOut'.response.status = 304 ]_vars

\* C40 as stated: with compression enabled, a Response with status 200 for a
\* file whose .gz sibling is on disk, to a request that names gzip, has the
\* Content-Encoding of a compressed file that the request names.
C40_GzipSiblingIsServedCompressed ==
    ( /\ staticOut.op = "serve" /\ staticOut.response.status = 200
      /\ compression
      /\ existsSync(disk, WithSuffix(RequestedFile(staticOut.urlPath), ".gz"))
      /\ staticOut.req.given /\ "gzip" \in staticOut.req.acceptEncoding )
    => staticOut.response.contentEncoding \in staticOut.req.acceptEncoding

\* C40: with compression enabled, a Response with status 200 for a file whose
\* .gz sibling is on disk, to a request that names gzip, is the .gz file with
\* Content-Encoding gzip when there is no .br sibling; when there is one,
\* lookup chooses it, and the Response is the .br file with Content-Encoding
\* br if the request names br too, and otherwise has no Content-Encoding and
\* the uncompressed path as body, although the .gz file is there and gzip is
\* named.
C40_GzipServedOnlyWithoutBrSibling ==
    ( /\ staticOut.op = "serve" /\ staticOut.response.status = 200
      /\ compression
      /\ existsSync(disk, WithSuffix(RequestedFile(staticOut.urlPath), ".gz"))
      /\ staticOut.req.given /\ "gzip" \in staticOut.req.acceptEncoding )
    => LET file == RequestedFile(staticOut.urlPath)
           br == existsSync(disk, WithSuffix(file, ".br"))
           accepted == staticOut.req.acceptEncoding
       IN  /\ ~br => /\ staticOut.response.contentEncoding = "gzip"
                     /\ staticOut.response.body = WithSuffix(file, ".gz")
           /\ (br /\ "br" \in accepted)
              => /\ staticOut.response.contentEncoding = "br"
                 /\ staticOut.response.body = WithSuffix(file, ".br")
           /\ (br /\ "br" \notin accepted)
              => /\ staticOut.response.contentEncoding = "none"
                 /\ staticOut.response.body = file

\* C40 witness: the file, its .br and its .gz sibling are on disk; a request
\* that names gzip only was sent the uncompressed file, without
\* Content-Encoding.
C40_Witness ==
    /\ staticOut.op = "serve" /\ staticOut.response.status = 200
    /\ compression
    /\ existsSync(disk, PathA) /\ existsSync(disk, PathABr) /\ existsSync(disk, PathAGz)
    /\ staticOut.req.acceptEncoding = {"gzip"}
    /\ staticOut.found.compressed = "br"
    /\ staticOut.response.contentEncoding = "none"
    /\ staticOut.response.body = PathA

\* C15: a serve that returns a Response answers 304, without a body, exactly
\* when the request's If-None-Match is the ETag of the file as it is now, or
\* its If-Modified-Since is a date not older than the file's modification
\* time; otherwise it answers 200 with the file as body. So a request that
\* presents the ETag a response before it returned, the file being as it
\* was, gets 304 and no body.
C15_NotModifiedExactlyWhenValidatorsMatch ==
    (staticOut.op = "serve" /\ staticOut.response.status # 0) =>
        /\ staticOut.response.etag
              = <<staticOut.found.stats.size, "-", staticOut.found.stats.mtime>>
        /\ staticOut.response.status = 304
              <=> /\ staticOut.req.given
                  /\ \/ staticOut.req.ifNoneMatch = staticOut.response.etag
                     \/ /\ Len(staticOut.req.ifModifiedSince) = 2
                        /\ staticOut.req.ifModifiedSince[2] * MsPerSecond
                              >= staticOut.found.stats.mtime
        /\ staticOut.response.status = 304 => staticOut.response.body = NoBody
        /\ staticOut.response.status # 304 =>
              /\ staticOut.response.status = 200
              /\ staticOut.response.body = StripCompressedSuffix(staticOut.found.filePath)
                 \/ staticOut.response.body = staticOut.found.filePath
        /\ (staticOut.reusedEtag /\ staticOut.req.ifNoneMatch = ETag(staticOut.found.stats))
              => staticOut.response.status = 304 /\ staticOut.response.body = NoBody

\* C15 witness: a request that carries no If-Modified-Since and presents the
\* ETag the response before it returned, for a file modified at some time
\* before that response, got 304 without a body.
C15_Witness ==
    /\ staticOut.op = "serve" /\ staticOut.reusedEtag
    /\ staticOut.req.ifModifiedSince = << >>
    /\ staticOut.found.stats.mtime > 0
    /\ staticOut.response.status = 304 /\ staticOut.response.body = NoBody

=============================================================================
